---- MODULE Spec2Model ----
(***************************************************************************)
(* Model of the Java code generator (JavaSourceFileGenerator) and of the   *)
(* classes it emits.  The generator is a pure function of a resolved       *)
(* record; its output is modelled as data (the emitted members, in         *)
(* emission order) and the emitted Java is modelled by the actions that    *)
(* interpret that data: the static initializer, builders and instances.    *)
(*                                                                         *)
(* Characters are numbers: a letter is its position in the alphabet        *)
(* (a = 1, b = 2, d = 4, o = 15), an upper-case letter is 100 + that, and  *)
(* '_' is 0, '.' is 46 and '/' is 47.  A name or a path is a sequence of   *)
(* characters.  The text of a source file is a sequence of one-character   *)
(* strings, a line of it too.                                              *)
(***************************************************************************)
EXTENDS Integers, Sequences, FiniteSets, TLC

\* Largest number of fields (or variants) of a record.
MaxFields == 2
\* Field numbers and removed numbers are drawn from 1..MaxNumber.
MaxNumber == 3
\* Largest number of setter and update calls a client makes on one Builder
\* it holds as a Builder (through the stage interfaces every setter can be
\* called once only).
MaxCalls == 1
\* Largest number of modules handed to generateCode.
MaxModules == 2
\* Largest number of lines of code after the header line of a source file.
MaxLines == 4
\* Largest number of ancestors of a record, the record itself included.
MaxAncestors == 3
\* Largest number of arrays and optionals around a primitive or a record
\* of a resolved type.
MaxDepth == 2

VARIABLES
  record,      \* the resolved record handed to the generator
  cls,         \* the emitted class (NoClass before generation)
  pc,          \* "write" | "clinit" | "ready"
  stmts,       \* statements of the static initializer still to run
  serializer,  \* what _serializerImpl has been told so far
  b,           \* the Builder object the client holds (NoBuilder if none)
  v,           \* the instance the client holds
  last,        \* the last call made on the emitted class
  input,            \* the modules handed to generateCode
  javaSourceFiles,  \* the JavaSourceFileGenerators created so far
  outputFiles,      \* the files generateCode returns
  code,             \* the lines of the code pushed to a source file
  lineIndex,        \* how many of them the layout engine has laid out
  contextStack,     \* the layout engine's stack of markers
  result,           \* the text laid out so far
  arguments,        \* the arguments of a call of a function of the generator
  returned          \* what the calls on these arguments have returned

\* The state of one emitted class, of generateCode, and of the layout engine.
classVars == <<record, cls, stmts, serializer, b, v, last>>

fileVars == <<input, javaSourceFiles, outputFiles>>

layoutVars == <<code, lineIndex, contextStack, result>>

callVars == <<arguments, returned>>

vars == <<classVars, pc, fileVars, layoutVars, callVars>>

(***************************************************************************)
(* Schema inputs                                                           *)
(***************************************************************************)

\* "a", "ab", "b", "do"
FieldNames == {<<1>>, <<1, 2>>, <<2>>, <<4, 15>>}

\* type "none" is an enum constant variant (a variant without payload).
StructFieldTypes == {"int32", "struct", "enum"}

Range(s) == {s[i] : i \in DOMAIN s}

\* Sequences without repetition, of length 0..n, over S.
RECURSIVE InjSeqs(_, _)
InjSeqs(S, n) ==
  IF n = 0 THEN {<<>>}
  ELSE LET shorter == InjSeqs(S, n - 1)
       IN shorter \cup
          {Append(s, x) : <<s, x>> \in
             {p \in shorter \X S : Len(p[1]) = n - 1 /\ p[2] \notin Range(p[1])}}

\* The elements of a set of numbers, ascending.
RECURSIVE Ascending(_)
Ascending(S) ==
  IF S = {} THEN <<>>
  ELSE LET m == CHOOSE x \in S : \A y \in S : x <= y
       IN <<m>> \o Ascending(S \ {m})

\* A struct field: only a field of struct type can be hard recursive.
StructFieldShapes ==
  {sh \in [type : StructFieldTypes, isRecursive : {"none", "hard"}] :
     sh.isRecursive = "hard" => sh.type = "struct"}

VariantShapes ==
  [type : StructFieldTypes \cup {"none"}, isRecursive : {"none"}]

\* The name of a constant variant is written in upper case ("AB"), every
\* other name in lower case ("ab").
MkField(name, number, sh) ==
  [name |-> IF sh.type = "none" THEN [i \in DOMAIN name |-> name[i] + 100]
            ELSE name,
   number |-> number, type |-> sh.type, isRecursive |-> sh.isRecursive]

NameSeqs == InjSeqs(FieldNames, MaxFields)

NumberSeqs == InjSeqs(1..MaxNumber, MaxFields)

\* A record with pairwise distinct names and numbers, removed numbers apart
\* from the live ones (the upstream compiler's invariants).
MkRecord(recordType, names, numbers, shs, removed) ==
  [recordType |-> recordType,
   fields |-> [i \in DOMAIN names |-> MkField(names[i], numbers[i], shs[i])],
   removedNumbers |-> Ascending(removed)]

ShapesOf(recordType) ==
  IF recordType = "struct" THEN StructFieldShapes ELSE VariantShapes

IsInput(rec) ==
  \E recordType \in {"struct", "enum"} :
    \E names \in NameSeqs :
      \E numbers \in {ns \in NumberSeqs : Len(ns) = Len(names)} :
        \E shs \in [DOMAIN names -> ShapesOf(recordType)] :
          \E removed \in SUBSET ((1..MaxNumber) \ Range(numbers)) :
            rec = MkRecord(recordType, names, numbers, shs, removed)

(***************************************************************************)
(* Naming                                                                  *)
(***************************************************************************)

ToUpper(c) == IF c \in 1..26 THEN c + 100 ELSE c

ToLower(c) == IF c \in 101..126 THEN c - 100 ELSE c

\* The words of a lower_underscore or UPPER_UNDERSCORE name, joined, each
\* with an upper-case first letter and lower-case letters after it.
RECURSIVE CamelFrom(_, _)
CamelFrom(name, startsWord) ==
  IF name = <<>> THEN <<>>
  ELSE IF Head(name) = 0 THEN CamelFrom(Tail(name), TRUE)
  ELSE <<IF startsWord THEN ToUpper(Head(name)) ELSE ToLower(Head(name))>>
         \o CamelFrom(Tail(name), FALSE)

\* convertCase(name, "UpperCamel")
UpperCamel(name) == CamelFrom(name, TRUE)

\* convertCase(name, "UPPER_UNDERSCORE")
UPPER_UNDERSCORE(name) == [i \in DOMAIN name |-> ToUpper(name[i])]

\* abstract, assert, boolean, ... yield: the 57 words of the source.
JAVA_HARD_KEYWORDS ==
  { <<1, 2, 19, 20, 18, 1, 3, 20>>, <<1, 19, 19, 5, 18, 20>>,
    <<2, 15, 15, 12, 5, 1, 14>>, <<2, 18, 5, 1, 11>>, <<2, 25, 20, 5>>,
    <<3, 1, 19, 5>>, <<3, 1, 20, 3, 8>>, <<3, 8, 1, 18>>,
    <<3, 12, 1, 19, 19>>, <<3, 15, 14, 19, 20>>,
    <<3, 15, 14, 20, 9, 14, 21, 5>>, <<4, 5, 6, 1, 21, 12, 20>>, <<4, 15>>,
    <<4, 15, 21, 2, 12, 5>>, <<5, 12, 19, 5>>, <<5, 14, 21, 13>>,
    <<5, 24, 16, 15, 18, 20, 19>>, <<5, 24, 20, 5, 14, 4, 19>>,
    <<6, 1, 12, 19, 5>>, <<6, 9, 14, 1, 12>>, <<6, 9, 14, 1, 12, 12, 25>>,
    <<6, 12, 15, 1, 20>>, <<6, 15, 18>>, <<7, 15, 20, 15>>, <<9, 6>>,
    <<9, 13, 16, 12, 5, 13, 5, 14, 20, 19>>, <<9, 13, 16, 15, 18, 20>>,
    <<9, 14, 19, 20, 1, 14, 3, 5, 15, 6>>, <<9, 14, 20>>,
    <<9, 14, 20, 5, 18, 6, 1, 3, 5>>, <<12, 15, 14, 7>>,
    <<13, 15, 4, 21, 12, 5>>, <<14, 1, 20, 9, 22, 5>>, <<14, 5, 23>>,
    <<14, 21, 12, 12>>, <<16, 1, 3, 11, 1, 7, 5>>,
    <<16, 18, 9, 22, 1, 20, 5>>, <<16, 18, 15, 20, 5, 3, 20, 5, 4>>,
    <<16, 21, 2, 12, 9, 3>>, <<18, 5, 20, 21, 18, 14>>,
    <<19, 8, 15, 18, 20>>, <<19, 20, 1, 20, 9, 3>>,
    <<19, 20, 18, 9, 3, 20, 6, 16>>, <<19, 21, 16, 5, 18>>,
    <<19, 23, 9, 20, 3, 8>>, <<19, 25, 14, 3, 8, 18, 15, 14, 9, 26, 5, 4>>,
    <<20, 8, 9, 19>>, <<20, 8, 18, 15, 23>>, <<20, 8, 18, 15, 23, 19>>,
    <<20, 18, 1, 14, 19, 9, 5, 14, 20>>, <<20, 18, 21, 5>>, <<20, 18, 25>>,
    <<22, 15, 9, 4>>, <<22, 15, 12, 1, 20, 9, 12, 5>>, <<23, 8, 9, 12, 5>>,
    <<23, 9, 20, 8>>, <<25, 9, 5, 12, 4>> }

\* build, java, kotlin, land, okio
TOP_LEVEL_PACKAGE_NAMES ==
  { <<2, 21, 9, 12, 4>>, <<10, 1, 22, 1>>, <<11, 15, 20, 12, 9, 14>>,
    <<12, 1, 14, 4>>, <<15, 11, 9, 15>> }

\* clone, equals, finalize, getClass, hashCode, notify, notifyAll, toString, wait
JAVA_OBJECT_SYMBOLS ==
  { <<3, 12, 15, 14, 5>>, <<5, 17, 21, 1, 12, 19>>,
    <<6, 9, 14, 1, 12, 9, 26, 5>>, <<7, 5, 20, 103, 12, 1, 19, 19>>,
    <<8, 1, 19, 8, 103, 15, 4, 5>>, <<14, 15, 20, 9, 6, 25>>,
    <<14, 15, 20, 9, 6, 25, 101, 12, 12>>,
    <<20, 15, 119, 20, 18, 9, 14, 7>>, <<23, 1, 9, 20>> }

\* builder, partialBuilder, toBuilder
GENERATED_STRUCT_SYMBOLS ==
  { <<2, 21, 9, 12, 4, 5, 18>>,
    <<16, 1, 18, 20, 9, 1, 12, 102, 21, 9, 12, 4, 5, 18>>,
    <<20, 15, 102, 21, 9, 12, 4, 5, 18>> }

\* convertCase(name, "lowerCamel")
lowerCamel(name) == CamelFrom(name, FALSE)

\* "skirout"
Skirout == <<19, 11, 9, 18, 15, 21, 20>>

\* packagePrefix.split(".")[0]
RECURSIVE FirstSegment(_)
FirstSegment(text) ==
  IF text = <<>> \/ Head(text) = 46 THEN <<>>
  ELSE <<Head(text)>> \o FirstSegment(Tail(text))

\* new Namer(packagePrefix)
Namer(packagePrefix) ==
  [packagePrefix |-> packagePrefix,
   genPackageFirstName |-> IF Len(packagePrefix) <= 0 THEN Skirout
                           ELSE FirstSegment(packagePrefix)]

\* this.namer of a generator whose config has no packagePrefix.
namer == Namer(<<>>)

\* Namer.structFieldToJavaName
structFieldToJavaName(this, skirName) ==
  LET name == lowerCamel(skirName)
      nameConflict == \/ name \in JAVA_HARD_KEYWORDS
                      \/ name \in TOP_LEVEL_PACKAGE_NAMES
                      \/ name \in JAVA_OBJECT_SYMBOLS
                      \/ name \in GENERATED_STRUCT_SYMBOLS
                      \/ name = this.genPackageFirstName
  IN IF nameConflict THEN Append(name, 0) ELSE name

\* String.prototype.localeCompare on lower-case letters: -1, 0 or 1.
RECURSIVE localeCompare(_, _)
localeCompare(x, y) ==
  IF x = <<>> /\ y = <<>> THEN 0
  ELSE IF x = <<>> THEN -1
  ELSE IF y = <<>> THEN 1
  ELSE IF Head(x) < Head(y) THEN -1
  ELSE IF Head(x) > Head(y) THEN 1
  ELSE localeCompare(Tail(x), Tail(y))

\* One step of a stable sort by name: f goes after every element that does
\* not compare greater than it.
RECURSIVE InsertByName(_, _)
InsertByName(sorted, f) ==
  IF sorted = <<>> THEN <<f>>
  ELSE IF localeCompare(f.name, Head(sorted).name) < 0 THEN <<f>> \o sorted
  ELSE <<Head(sorted)>> \o InsertByName(Tail(sorted), f)

RECURSIVE SortByNameFrom(_, _)
SortByNameFrom(fields, done) ==
  IF fields = <<>> THEN done
  ELSE SortByNameFrom(Tail(fields), InsertByName(done, Head(fields)))

\* The mis-sort that keeps declaration order.
DeclarationOrder(fields) == fields

\* fields.sort((a, b) => a.name.text.localeCompare(b.name.text))
sortedFields(fields) == SortByNameFrom(fields, <<>>)

RECURSIVE join(_, _)
join(parts, separator) ==
  IF parts = <<>> THEN <<>>
  ELSE IF Len(parts) = 1 THEN parts[1]
  ELSE parts[1] \o separator \o join(Tail(parts), separator)

(***************************************************************************)
(* Type translation.  Generated text is a sequence of pieces: literal text *)
(* (Tok) and names spelled by the Namer (Name), so that string             *)
(* concatenation is \o.  A resolved type is a primitive, a record (by its  *)
(* key in recordMap), an array (with a key or undefined) or an optional.   *)
(***************************************************************************)

Tok(text) == [text |-> text, name |-> <<>>]

Name(name) == [text |-> "", name |-> name]

undefined == [undefined |-> TRUE]

Primitive(primitive) == [kind |-> "primitive", primitive |-> primitive]

RecordType(key) == [kind |-> "record", key |-> key]

ArrayType(item, key) == [kind |-> "array", item |-> item, key |-> key]

OptionalType(other) == [kind |-> "optional", other |-> other]

\* this.recordMap.get(key): the record type and, for
\* namer.getClassName(recordLocation).qualifiedName, the class name.
recordMap ==
  [Foo |-> [recordType |-> "struct", className |-> "skirout.a.Foo"],
   Bar |-> [recordType |-> "struct", className |-> "skirout.a.Bar"],
   E |-> [recordType |-> "enum", className |-> "skirout.a.E"]]

\* The field types of the class models as resolved types.
ResolvedType(type) ==
  CASE type = "int32" -> Primitive("int32")
    [] type = "struct" -> RecordType("Foo")
    [] type = "enum" -> RecordType("E")

\* throw TypeError() / throw Error()
TypeError == <<Tok("throw TypeError()")>>

Error == <<Tok("throw Error()")>>

RECURSIVE getJavaType(_, _, _)
getJavaType(type, flavor, mustBeObject) ==
  CASE type.kind = "record" ->
         LET className == <<Tok(recordMap[type.key].className)>>
         IN IF recordMap[type.key].recordType = "struct" THEN className
            ELSE IF flavor = "initializer" \/ flavor = "frozen" THEN className
            ELSE IF flavor = "frozen-key"
              THEN className \o <<Tok(".Kind")>>
            ELSE TypeError
    [] type.kind = "array" ->
         LET itemType == getJavaType(type.item, flavor, "must-be-object")
         IN IF itemType = TypeError THEN TypeError
            ELSE IF flavor = "initializer"
              THEN <<Tok("java.lang.Iterable<? extends ")>> \o itemType
                   \o <<Tok(">")>>
            ELSE IF flavor = "frozen" \/ flavor = "frozen-key"
              THEN IF type.key # undefined
                     THEN LET javaKeyType ==
                                getJavaType(type.key.keyType, "frozen-key",
                                            "must-be-object")
                          IN IF javaKeyType = TypeError THEN TypeError
                             ELSE <<Tok("build.skir.KeyedList<")>> \o itemType
                                  \o <<Tok(", ")>> \o javaKeyType
                                  \o <<Tok(">")>>
                     ELSE <<Tok("java.util.List<")>> \o itemType
                          \o <<Tok(">")>>
            ELSE TypeError
    [] type.kind = "optional" ->
         LET otherType == getJavaType(type.other, flavor, "must-be-object")
         IN IF otherType = TypeError THEN TypeError
            ELSE <<Tok("java.util.Optional<")>> \o otherType \o <<Tok(">")>>
    [] type.kind = "primitive" ->
         LET primitive == type.primitive
         IN IF mustBeObject = "must-be-object"
              THEN CASE primitive = "bool" -> <<Tok("java.lang.Boolean")>>
                     [] primitive = "int32" -> <<Tok("java.lang.Integer")>>
                     [] primitive \in {"int64", "hash64"} ->
                          <<Tok("java.lang.Long")>>
                     [] primitive = "float32" -> <<Tok("java.lang.Float")>>
                     [] primitive = "float64" -> <<Tok("java.lang.Double")>>
                     [] primitive = "timestamp" ->
                          <<Tok("java.time.Instant")>>
                     [] primitive = "string" -> <<Tok("java.lang.String")>>
                     [] primitive = "bytes" -> <<Tok("okio.ByteString")>>
                     [] OTHER -> TypeError
              ELSE CASE primitive = "bool" -> <<Tok("boolean")>>
                     [] primitive = "int32" -> <<Tok("int")>>
                     [] primitive \in {"int64", "hash64"} -> <<Tok("long")>>
                     [] primitive = "float32" -> <<Tok("float")>>
                     [] primitive = "float64" -> <<Tok("double")>>
                     [] primitive = "timestamp" ->
                          <<Tok("java.time.Instant")>>
                     [] primitive = "string" -> <<Tok("java.lang.String")>>
                     [] primitive = "bytes" -> <<Tok("okio.ByteString")>>
                     [] OTHER -> TypeError

\* The slip that labels a keyed list with the Java names of the path.
javaKeyChain(key) ==
  join([i \in DOMAIN key.path |-> structFieldToJavaName(namer, key.path[i])],
       <<46>>)

\* type.key.path.map((f) => f.name.text).join(".")
keyChain(key) == join(key.path, <<46>>)

\* type.key.path.map((f) => namer.structFieldToJavaName(f.name.text) + "()")
\*   .join(".")
pathOf(key) ==
  join([i \in DOMAIN key.path |->
          structFieldToJavaName(namer, key.path[i]) \o <<40, 41>>],
       <<46>>)

RECURSIVE getSerializerExpression(_)
getSerializerExpression(type) ==
  CASE type.kind = "primitive" ->
         LET primitive == type.primitive
         IN CASE primitive = "bool" -> <<Tok("build.skir.Serializers.bool()")>>
              [] primitive = "int32" ->
                   <<Tok("build.skir.Serializers.int32()")>>
              [] primitive = "int64" ->
                   <<Tok("build.skir.Serializers.int64()")>>
              [] primitive = "hash64" ->
                   <<Tok("build.skir.Serializers.javaHash64()")>>
              [] primitive = "float32" ->
                   <<Tok("build.skir.Serializers.float32()")>>
              [] primitive = "float64" ->
                   <<Tok("build.skir.Serializers.float64()")>>
              [] primitive = "timestamp" ->
                   <<Tok("build.skir.Serializers.timestamp()")>>
              [] primitive = "string" ->
                   <<Tok("build.skir.Serializers.string()")>>
              [] primitive = "bytes" ->
                   <<Tok("build.skir.Serializers.bytes()")>>
              [] OTHER -> TypeError
    [] type.kind = "array" ->
         LET item == getSerializerExpression(type.item)
         IN IF item = TypeError THEN TypeError
            ELSE IF type.key # undefined
              THEN <<Tok("build.skir.internal.ListSerializerKt.keyedListSerializer(\n")>>
                   \o item
                   \o <<Tok(",\n\""), Name(keyChain(type.key)),
                        Tok("\",\n(it) -> it."), Name(pathOf(type.key)),
                        Tok("\n)")>>
            ELSE <<Tok("build.skir.Serializers.list(\n")>> \o item
                 \o <<Tok("\n)")>>
    [] type.kind = "optional" ->
         LET other == getSerializerExpression(type.other)
         IN IF other = TypeError THEN TypeError
            ELSE <<Tok("build.skir.Serializers.javaOptional(\n")>> \o other
                 \o <<Tok("\n)")>>
    [] type.kind = "record" ->
         <<Tok(recordMap[type.key].className), Tok(".SERIALIZER")>>

getDefaultExpression(type) ==
  CASE type.kind = "primitive" ->
         LET primitive == type.primitive
         IN CASE primitive = "bool" -> <<Tok("false")>>
              [] primitive \in {"int32", "int64", "uint64"} -> <<Tok("0")>>
              [] primitive = "float32" -> <<Tok("0.0f")>>
              [] primitive = "float64" -> <<Tok("0.0")>>
              [] primitive = "timestamp" -> <<Tok("java.time.Instant.EPOCH")>>
              [] primitive = "string" -> <<Tok("\"\"")>>
              [] primitive = "bytes" -> <<Tok("okio.ByteString.EMPTY")>>
              [] OTHER -> Error
    [] type.kind = "array" ->
         IF type.key # undefined
           THEN <<Tok("build.skir.internal.FrozenListKt.emptyKeyedList()")>>
           ELSE <<Tok("build.skir.internal.FrozenListKt.emptyFrozenList()")>>
    [] type.kind = "optional" -> <<Tok("java.util.Optional.empty()")>>
    [] type.kind = "record" ->
         LET kotlinType == getJavaType(type, "frozen", "undefined")
         IN IF recordMap[type.key].recordType = "struct"
              THEN kotlinType \o <<Tok(".DEFAULT")>>
              ELSE kotlinType \o <<Tok(".UNKNOWN")>>

\* `java.util.Objects.requireNonNull(${inputExpr})`
requireNonNull(inputExpr) ==
  <<Tok("java.util.Objects.requireNonNull(")>> \o inputExpr \o <<Tok(")")>>

\* The slip that asserts the value unwrapped from an optional.
otherCanBeNull == "can-be-null"

\* The nullability the optional case passes for the unwrapped value.
otherNullability == "never-null"

\* case "primitive" of toFrozenExpression.
toFrozenPrimitive(inputExpr, primitive, nullability) ==
  CASE primitive \in {"bool", "int32", "int64", "uint64", "float32",
                      "float64"} -> inputExpr
    [] primitive \in {"timestamp", "string", "bytes"} ->
         IF nullability = "can-be-null" THEN requireNonNull(inputExpr)
         ELSE inputExpr
    [] OTHER -> Error

\* nullability is "can-be-null" or "never-null"; it is the name of the
\* lambda parameter, it + "_" the one of the next lambda inside.
RECURSIVE toFrozenExpression(_, _, _, _)
toFrozenExpression(inputExpr, type, nullability, it) ==
  CASE type.kind = "primitive" ->
         toFrozenPrimitive(inputExpr, type.primitive, nullability)
    [] type.kind = "array" ->
         LET itemToFrozenExpr ==
               toFrozenExpression(it, type.item, "can-be-null",
                                  it \o <<Tok("_")>>)
             frozenListKt == "build.skir.internal.FrozenListKt"
         IN IF itemToFrozenExpr = Error THEN Error
            ELSE IF type.key # undefined
              THEN IF itemToFrozenExpr = it
                     THEN <<Tok(frozenListKt), Tok(".toKeyedList(\n")>>
                          \o inputExpr
                          \o <<Tok(",\n\""), Name(pathOf(type.key)),
                               Tok("\",\n(")>> \o it \o <<Tok(") -> ")>>
                          \o it \o <<Tok("."), Name(pathOf(type.key)),
                                     Tok("\n)")>>
                     ELSE <<Tok(frozenListKt), Tok(".toKeyedList(\n")>>
                          \o inputExpr
                          \o <<Tok(",\n\""), Name(pathOf(type.key)),
                               Tok("\",\n(")>> \o it \o <<Tok(") -> ")>>
                          \o it \o <<Tok("."), Name(pathOf(type.key)),
                                     Tok(",\n(")>> \o it \o <<Tok(") -> ")>>
                          \o itemToFrozenExpr \o <<Tok("\n)")>>
            ELSE IF itemToFrozenExpr = it
              THEN <<Tok(frozenListKt), Tok(".toFrozenList(")>> \o inputExpr
                   \o <<Tok(")")>>
            ELSE <<Tok(frozenListKt), Tok(".toFrozenList(\n")>> \o inputExpr
                 \o <<Tok(",\n(")>> \o it \o <<Tok(") -> ")>>
                 \o itemToFrozenExpr \o <<Tok("\n)")>>
    [] type.kind = "optional" ->
         LET otherExpr ==
               toFrozenExpression(it, type.other, otherNullability,
                                  it \o <<Tok("_")>>)
         IN IF otherExpr = Error THEN Error
            ELSE inputExpr \o <<Tok(".map(\n(")>> \o it \o <<Tok(") -> ")>>
                 \o otherExpr \o <<Tok("\n)")>>
    [] type.kind = "record" ->
         IF nullability = "can-be-null" THEN requireNonNull(inputExpr)
         ELSE inputExpr

(***************************************************************************)
(* writeClassForStruct: the members of the emitted class, in emission      *)
(* order.  A stage interface is named by the UpperCamel name of its field  *)
(* ("Builder_At" + name); Builder_Done is the empty name and the concrete  *)
(* Builder class is <<0>>.                                                 *)
(***************************************************************************)

Builder_Done == <<>>

BuilderClass == <<0>>

Builder_At(field) == UpperCamel(field.name)

NoName == <<>>

Stmt(op, name, number, ser, getter, setter) ==
  [op |-> op, name |-> name, number |-> number, serializer |-> ser,
   getter |-> getter, setter |-> setter]

\* The slip that builds the default of a hard recursive field eagerly.
EagerDefaultInstanceInit(field) ==
  [slot |-> structFieldToJavaName(namer, field.name),
   expr |-> getDefaultExpression(ResolvedType(field.type))]

\* "private <Class>() {...}": null for a hard recursive field.
DefaultInstanceInit(field) ==
  [slot |-> structFieldToJavaName(namer, field.name),
   expr |-> IF field.isRecursive = "hard" THEN <<Tok("null")>>
            ELSE getDefaultExpression(ResolvedType(field.type))]

\* "private Builder() {...}"
BuilderInit(field) ==
  [slot |-> structFieldToJavaName(namer, field.name),
   expr |-> getDefaultExpression(ResolvedType(field.type))]

\* The slip that returns the slot of every field as it is.
RawGetterOf(field) ==
  [name |-> structFieldToJavaName(namer, field.name),
   slot |-> structFieldToJavaName(namer, field.name),
   lazy |-> FALSE,
   defaultExpr |-> getDefaultExpression(ResolvedType(field.type))]

\* The getter of a field: lazy default for a hard recursive field.
GetterOf(field) ==
  [name |-> structFieldToJavaName(namer, field.name),
   slot |-> structFieldToJavaName(namer, field.name),
   lazy |-> field.isRecursive = "hard",
   defaultExpr |-> getDefaultExpression(ResolvedType(field.type))]

SetterOf(field) ==
  [name |-> UpperCamel(field.name),
   slot |-> structFieldToJavaName(namer, field.name),
   type |-> field.type,
   toFrozenExpr |->
     toFrozenExpression(<<Name(structFieldToJavaName(namer, field.name))>>,
                        ResolvedType(field.type), "can-be-null",
                        <<Tok("_e")>>)]

\* "update<Name>(updater)": return set<Name>(updater.apply(this.<slot>))
UpdaterOf(field) ==
  [name |-> UpperCamel(field.name),
   slot |-> structFieldToJavaName(namer, field.name),
   setter |-> UpperCamel(field.name)]

isStruct(field) == field.type = "struct"

\* The slip that lets every stage return Builder_Done.
ShortStageOf(fields, index) ==
  [iface |-> Builder_At(fields[index]),
   setter |-> UpperCamel(fields[index].name),
   ret |-> Builder_Done]

\* The stage interface of fields[index]: one setter, returning the next stage.
StageOf(fields, index) ==
  [iface |-> Builder_At(fields[index]),
   setter |-> UpperCamel(fields[index].name),
   ret |-> IF index < Len(fields) THEN Builder_At(fields[index + 1])
           ELSE Builder_Done]

AddFieldStmt(field) ==
  Stmt("addField", field.name, field.number,
       getSerializerExpression(ResolvedType(field.type)),
       structFieldToJavaName(namer, field.name), structFieldToJavaName(namer, field.name))

AddRemovedNumberStmt(removedNumber) ==
  Stmt("addRemovedNumber", NoName, removedNumber, <<>>, NoName, NoName)

\* The slip that registers no removed number.
NoRemovedNumberStmts(removedNumbers) == <<>>

RemovedNumberStmts(removedNumbers) ==
  [i \in DOMAIN removedNumbers |-> AddRemovedNumberStmt(removedNumbers[i])]

\* The slip that registers the fields by ascending number.
numberOrder(fields) ==
  LET rank(i) == Cardinality({j \in DOMAIN fields :
                                fields[j].number < fields[i].number}) + 1
  IN [k \in DOMAIN fields |-> fields[CHOOSE i \in DOMAIN fields : rank(i) = k]]

\* The order the static initializer registers the fields in: the order of
\* the sorted "fields" array.
registrationOrder(fields) == fields

writeClassForStruct(rec) ==
  LET fields == sortedFields(rec.fields)
      javaNames == [i \in DOMAIN fields |-> structFieldToJavaName(namer, fields[i].name)]
      structIdx == {i \in DOMAIN fields : isStruct(fields[i])}
      regs == registrationOrder(fields)
  IN [recordType |-> "struct",
      slots |-> javaNames,
      ctorParams |-> javaNames,
      defaultCtor |-> [i \in DOMAIN fields |-> DefaultInstanceInit(fields[i])],
      getters |-> [i \in DOMAIN fields |-> GetterOf(fields[i])],
      toBuilderArgs |-> javaNames,
      equalsProxy |-> javaNames,
      builderRet |-> IF fields # <<>> THEN Builder_At(fields[1]) ELSE Builder_Done,
      stages |-> [i \in DOMAIN fields |-> StageOf(fields, i)],
      implements |-> [i \in DOMAIN fields |-> Builder_At(fields[i])]
                       \o <<Builder_Done>>,
      builderSlots |-> javaNames,
      builderCtorParams |-> javaNames,
      builderDefaultCtor |-> [i \in DOMAIN fields |-> BuilderInit(fields[i])],
      setters |-> [i \in DOMAIN fields |-> SetterOf(fields[i])],
      updaters |-> {UpdaterOf(fields[i]) : i \in structIdx},
      buildArgs |-> javaNames,
      staticInit |->
        [i \in DOMAIN regs |-> AddFieldStmt(regs[i])]
          \o RemovedNumberStmts(rec.removedNumbers)
          \o <<Stmt("finalizeStruct", NoName, 0, <<>>, NoName, NoName)>>]

(***************************************************************************)
(* writeClassForEnum: the members and the static initializer of the        *)
(* emitted enum class.                                                     *)
(***************************************************************************)

AddConstantVariantStmt(variant) ==
  Stmt("addConstantVariant", variant.name, variant.number, <<>>, NoName,
       NoName)

AddWrapperVariantStmt(variant) ==
  Stmt("addWrapperVariant", variant.name, variant.number,
       getSerializerExpression(ResolvedType(variant.type)),
       UpperCamel(variant.name), UpperCamel(variant.name))

\* Kind.UNKNOWN, Kind.<NAME>_CONST, Kind.<NAME>_WRAPPER
KindUNKNOWN == [name |-> <<>>, suffix |-> "UNKNOWN"]

ConstKind(variant) == [name |-> variant.name, suffix |-> "_CONST"]

WrapperKind(variant) ==
  [name |-> UPPER_UNDERSCORE(variant.name), suffix |-> "_WRAPPER"]

\* toEnumConstantName: "SERIALIZER" and "TYPE_DESCRIPTOR" get a '_'; no
\* name of the model is one of them.
toEnumConstantName(variant) == variant.name

\* public static final C <NAME> = new C(Kind.<NAME>_CONST, null);
ConstantOf(variant) ==
  [name |-> toEnumConstantName(variant), kind |-> ConstKind(variant),
   value |-> <<Tok("null")>>]

\* public static C wrap<Name>(value)
WrapOf(variant) ==
  [name |-> UpperCamel(variant.name), type |-> variant.type,
   toFrozenExpr |->
     toFrozenExpression(<<Tok("value")>>, ResolvedType(variant.type),
                        "can-be-null", <<Tok("_e")>>),
   kind |-> WrapperKind(variant)]

\* The slip that lets as<Name>() cast the value without looking at the kind.
UncheckedIsAsOf(variant) ==
  [name |-> UpperCamel(variant.name), isKind |-> WrapperKind(variant),
   asChecks |-> FALSE, asKind |-> WrapperKind(variant)]

\* is<Name>() compares kind with isKind; as<Name>() throws unless kind is
\* asKind.
IsAsOf(variant) ==
  [name |-> UpperCamel(variant.name), isKind |-> WrapperKind(variant),
   asChecks |-> TRUE, asKind |-> WrapperKind(variant)]

\* A Visitor method: on<Name>() or on<Name>(value).
Callback(name, takesValue) == [name |-> name, takesValue |-> takesValue]

onUnknown == Callback(<<121, 14, 11, 14, 15, 23, 14>>, FALSE)

\* R on<Name>(); in the Visitor interface
ConstantCallbackOf(variant) == Callback(UpperCamel(variant.name), FALSE)

\* R on<Name>(T value); in the Visitor interface
WrapperCallbackOf(variant) == Callback(UpperCamel(variant.name), TRUE)

\* The slip that sends every constant variant to onUnknown.
ConstantCaseToUnknown(variant) ==
  [kind |-> ConstKind(variant), callback |-> onUnknown]

\* case <NAME>_CONST -> visitor.on<Name>();
ConstantCaseOf(variant) ==
  [kind |-> ConstKind(variant),
   callback |-> Callback(UpperCamel(variant.name), FALSE)]

\* case <NAME>_WRAPPER -> visitor.on<Name>((T) value);
WrapperCaseOf(variant) ==
  [kind |-> WrapperKind(variant),
   callback |-> Callback(UpperCamel(variant.name), TRUE)]

writeClassForEnum(rec) ==
  LET variants == rec.fields
      constantVariants == SelectSeq(variants, LAMBDA x : x.type = "none")
      wrapperVariants == SelectSeq(variants, LAMBDA x : x.type # "none")
  IN [recordType |-> "enum",
      kinds |-> <<KindUNKNOWN>>
                  \o [i \in DOMAIN constantVariants |->
                        ConstKind(constantVariants[i])]
                  \o [i \in DOMAIN wrapperVariants |->
                        WrapperKind(wrapperVariants[i])],
      constants |-> [i \in DOMAIN constantVariants |->
                       ConstantOf(constantVariants[i])],
      wrappers |-> [i \in DOMAIN wrapperVariants |-> WrapOf(wrapperVariants[i])],
      isAs |-> [i \in DOMAIN wrapperVariants |-> IsAsOf(wrapperVariants[i])],
      visitor |-> <<onUnknown>>
                    \o [i \in DOMAIN constantVariants |->
                          ConstantCallbackOf(constantVariants[i])]
                    \o [i \in DOMAIN wrapperVariants |->
                          WrapperCallbackOf(wrapperVariants[i])],
      acceptCases |-> [i \in DOMAIN constantVariants |->
                         ConstantCaseOf(constantVariants[i])]
                        \o [i \in DOMAIN wrapperVariants |->
                              WrapperCaseOf(wrapperVariants[i])],
      acceptDefault |-> onUnknown,
      staticInit |->
        [i \in DOMAIN constantVariants |->
           AddConstantVariantStmt(constantVariants[i])]
          \o [i \in DOMAIN wrapperVariants |->
                AddWrapperVariantStmt(wrapperVariants[i])]
          \o RemovedNumberStmts(rec.removedNumbers)
          \o <<Stmt("finalizeEnum", NoName, 0, <<>>, NoName, NoName)>>]

(***************************************************************************)
(* Generation, then the static initializer of the emitted class, one       *)
(* statement at a time.                                                    *)
(***************************************************************************)

NoClass == [recordType |-> "none"]

NoBuilder == [type |-> <<0, 0>>]

NoInstance == [u |-> 0]

NoCall == [op |-> "none"]

NewSerializer == [fields |-> <<>>, removed |-> <<>>, finalized |-> FALSE]

\* The parts of the state an execution does not use stay idle.
NoFiles ==
  /\ input = <<>>
  /\ javaSourceFiles = <<>>
  /\ outputFiles = <<>>

NoLayout ==
  /\ code = <<>>
  /\ lineIndex = 0
  /\ contextStack = <<>>
  /\ result = <<>>

\* No function of the generator is being called on its own.
NoCalls ==
  /\ arguments = [op |-> "none"]
  /\ returned = {}

InitGen ==
  /\ NoFiles
  /\ NoLayout
  /\ NoCalls
  /\ IsInput(record)
  /\ cls = NoClass
  /\ pc = "write"
  /\ stmts = <<>>
  /\ serializer = NewSerializer
  /\ b = NoBuilder
  /\ v = NoInstance
  /\ last = NoCall

WriteClassForStruct ==
  /\ pc = "write"
  /\ record.recordType = "struct"
  /\ cls' = writeClassForStruct(record)
  /\ stmts' = cls'.staticInit
  /\ pc' = "clinit"
  /\ UNCHANGED <<record, serializer, b, v, last>>
  /\ UNCHANGED <<fileVars, layoutVars, callVars>>

WriteClassForEnum ==
  /\ pc = "write"
  /\ record.recordType = "enum"
  /\ cls' = writeClassForEnum(record)
  /\ stmts' = cls'.staticInit
  /\ pc' = "clinit"
  /\ UNCHANGED <<record, serializer, b, v, last>>
  /\ UNCHANGED <<fileVars, layoutVars, callVars>>

\* _serializerImpl.addField / addConstantVariant / addWrapperVariant
Register(op) ==
  /\ pc = "clinit"
  /\ stmts # <<>>
  /\ Head(stmts).op = op
  /\ serializer' = [serializer EXCEPT !.fields = Append(@, Head(stmts))]
  /\ stmts' = Tail(stmts)
  /\ UNCHANGED <<record, cls, pc, b, v, last>>
  /\ UNCHANGED <<fileVars, layoutVars, callVars>>

AddField == Register("addField")

AddConstantVariant == Register("addConstantVariant")

AddWrapperVariant == Register("addWrapperVariant")

AddRemovedNumber ==
  /\ pc = "clinit"
  /\ stmts # <<>>
  /\ Head(stmts).op = "addRemovedNumber"
  /\ serializer' = [serializer EXCEPT !.removed = Append(@, Head(stmts).number)]
  /\ stmts' = Tail(stmts)
  /\ UNCHANGED <<record, cls, pc, b, v, last>>
  /\ UNCHANGED <<fileVars, layoutVars, callVars>>

Finalize(op) ==
  /\ pc = "clinit"
  /\ stmts # <<>>
  /\ Head(stmts).op = op
  /\ serializer' = [serializer EXCEPT !.finalized = TRUE]
  /\ stmts' = Tail(stmts)
  /\ pc' = "ready"
  /\ UNCHANGED <<record, cls, b, v, last>>
  /\ UNCHANGED <<fileVars, layoutVars, callVars>>

FinalizeStruct == Finalize("finalizeStruct")

FinalizeEnum == Finalize("finalizeEnum")

NextGen ==
  \/ WriteClassForStruct
  \/ WriteClassForEnum
  \/ AddField
  \/ AddConstantVariant
  \/ AddWrapperVariant
  \/ AddRemovedNumber
  \/ FinalizeStruct
  \/ FinalizeEnum

SpecGen == InitGen /\ [][NextGen]_vars

(***************************************************************************)
(* The emitted struct class at run time.  A value of a field is Null or a  *)
(* number: 0 is the default value of the field's type (what every default  *)
(* expression evaluates to), 1 is another value.  The payload _u is 0      *)
(* (null) or 1.                                                            *)
(***************************************************************************)

Null == -1

Values == {0, 1}

\* The value of an initializer expression.
Eval(expr) == IF expr = <<Tok("null")>> THEN Null ELSE 0

IndexOf(seq, x) == CHOOSE i \in DOMAIN seq : seq[i] = x

\* "new C(args, u)" for a constructor with parameters params that assigns
\* each parameter to the slot of its name.
Construct(params, args, u) ==
  [slots |-> [n \in Range(params) |-> args[IndexOf(params, n)]], u |-> u]

\* "private C() {...}" with the initializers inits.
ConstructDefault(inits) ==
  [slots |-> [n \in {inits[i].slot : i \in DOMAIN inits} |->
                Eval(inits[IndexOf([i \in DOMAIN inits |-> inits[i].slot], n)].expr)],
   u |-> 0]

\* public static final C DEFAULT = new C();
DEFAULT(c) == ConstructDefault(c.defaultCtor)

\* The call of getter g on instance x.
Get(g, x) ==
  IF g.lazy
    THEN IF x.slots[g.slot] # Null THEN x.slots[g.slot] ELSE Eval(g.defaultExpr)
    ELSE x.slots[g.slot]

\* x._equalsProxy()
equalsProxy(c, x) == [i \in DOMAIN c.equalsProxy |-> x.slots[c.equalsProxy[i]]]

\* x.equals(y): java.util.Arrays.equals of the two proxies.
equals(c, x, y) == equalsProxy(c, x) = equalsProxy(c, y)

\* java.util.Arrays.hashCode; with at most 5 elements in {Null, 0, 1} the
\* result stays below 2^31, so int arithmetic does not wrap.
RECURSIVE ArraysHashCode(_)
ArraysHashCode(a) ==
  IF a = <<>> THEN 1
  ELSE LET e == a[Len(a)]
       IN 31 * ArraysHashCode(SubSeq(a, 1, Len(a) - 1))
            + (IF e = Null THEN 0 ELSE e)

hashCode(c, x) == ArraysHashCode(equalsProxy(c, x))

\* The slip that does not hand the payload to the builder.
toBuilderWithoutPayload(c, x) ==
  Construct(c.builderCtorParams,
            [i \in DOMAIN c.toBuilderArgs |-> x.slots[c.toBuilderArgs[i]]], 0)

\* x.toBuilder(): new Builder(this.f1, ..., this._u)
toBuilder(c, x) ==
  Construct(c.builderCtorParams,
            [i \in DOMAIN c.toBuilderArgs |-> x.slots[c.toBuilderArgs[i]]], x.u)

\* bld.build(): new C(this.f1, ..., this._u)
build(c, bld) ==
  Construct(c.ctorParams,
            [i \in DOMAIN c.buildArgs |-> bld.slots[c.buildArgs[i]]], bld.u)

\* The value a setter stores for input arg; Null input to requireNonNull
\* throws (Threw).
Threw == -2

Frozen(toFrozenExpr, arg) ==
  IF Head(toFrozenExpr) = Head(requireNonNull(<<>>)) /\ arg = Null THEN Threw
  ELSE arg

\* What a caller can pass for a parameter of this type.
Arguments(type) == IF type = "int32" THEN Values ELSE Values \cup {Null}

\* The client's builder: the object, the static type of the client's
\* reference to it, how it was obtained, the setters that returned since it
\* was obtained (update<Name> calls set<Name>), and whether build() was
\* called (the client builds once with a builder).
Held(obj, type, origin) ==
  [slots |-> obj.slots, u |-> obj.u, type |-> type, origin |-> origin,
   calls |-> <<>>, done |-> FALSE]

Call(op, field, arg) == [op |-> op, field |-> field, arg |-> arg]

\* The structs the run-time model is generated from: the first fields of
\* "do", "ab", "a", "b", declared in this order.
RuntimeDeclared == <<<<4, 15>>, <<1, 2>>, <<1>>, <<2>>>>

IsRuntimeInput(rec) ==
  \E n \in 0..MaxFields :
    \E shs \in [1..n -> StructFieldShapes] :
      rec = MkRecord("struct", SubSeq(RuntimeDeclared, 1, n),
                     [i \in 1..n |-> i], shs, {})

\* The serializer once the static initializer of c has run.
Registered(c) ==
  [fields |-> SelectSeq(c.staticInit, LAMBDA st : st.op = "addField"),
   removed |-> <<>>, finalized |-> TRUE]

Init ==
  /\ NoFiles
  /\ NoLayout
  /\ NoCalls
  /\ IsRuntimeInput(record)
  /\ cls = writeClassForStruct(record)
  /\ pc = "ready"
  /\ stmts = <<>>
  /\ serializer = Registered(cls)
  /\ b = NoBuilder
  /\ v = DEFAULT(cls)
  /\ last = NoCall

\* C.builder(): a new Builder, seen through the first stage interface.
CallBuilder ==
  /\ pc = "ready"
  /\ b' = Held(ConstructDefault(cls.builderDefaultCtor), cls.builderRet, "builder")
  /\ last' = Call("builder", NoName, 0)
  /\ UNCHANGED <<record, cls, pc, stmts, serializer, v>>
  /\ UNCHANGED <<fileVars, layoutVars, callVars>>

\* C.partialBuilder()
CallPartialBuilder ==
  /\ pc = "ready"
  /\ b' = Held(ConstructDefault(cls.builderDefaultCtor), BuilderClass,
               "partialBuilder")
  /\ last' = Call("partialBuilder", NoName, 0)
  /\ UNCHANGED <<record, cls, pc, stmts, serializer, v>>
  /\ UNCHANGED <<fileVars, layoutVars, callVars>>

\* v.toBuilder()
CallToBuilder ==
  /\ pc = "ready"
  /\ b' = Held(toBuilder(cls, v), BuilderClass, "toBuilder")
  /\ last' = Call("toBuilder", NoName, 0)
  /\ UNCHANGED <<record, cls, pc, stmts, serializer, v>>
  /\ UNCHANGED <<fileVars, layoutVars, callVars>>

\* The setters the static type t exposes, each with its return type.
SettersOf(c, t) ==
  IF t = BuilderClass
    THEN {[setter |-> c.setters[i], ret |-> BuilderClass] : i \in DOMAIN c.setters}
    ELSE {[setter |-> c.setters[p[1]], ret |-> c.stages[p[2]].ret] :
            p \in {q \in (DOMAIN c.setters) \X (DOMAIN c.stages) :
                     c.stages[q[2]].iface = t
                       /\ c.stages[q[2]].setter = c.setters[q[1]].name}}

\* bld after set<Name>(arg) returned, seen through the type ret.
AfterSet(bld, setter, arg, ret) ==
  [bld EXCEPT !.slots[setter.slot] = Frozen(setter.toFrozenExpr, arg),
              !.type = ret,
              !.calls = Append(@, setter.name)]

\* b.set<Name>(arg), through the static type of the client's reference.
CallSetter ==
  /\ pc = "ready"
  /\ b # NoBuilder
  /\ ~b.done
  /\ b.type = BuilderClass => Len(b.calls) < MaxCalls
  /\ \E m \in SettersOf(cls, b.type) : \E arg \in Arguments(m.setter.type) :
       IF Frozen(m.setter.toFrozenExpr, arg) = Threw
         THEN /\ last' = Call("threw", NoName, 0)
              /\ b' = b
         ELSE /\ last' = Call("set", m.setter.name, 0)
              /\ b' = AfterSet(b, m.setter, arg, m.ret)
  /\ UNCHANGED <<record, cls, pc, stmts, serializer, v>>
  /\ UNCHANGED <<fileVars, layoutVars, callVars>>

\* The updaters a client may pass: to the default, to another value, or the
\* identity.
Updaters == {"toDefault", "toOther", "identity"}

Apply(updater, x) ==
  CASE updater = "toDefault" -> 0
    [] updater = "toOther" -> 1
    [] updater = "identity" -> x

\* b.update<Name>(updater): only the Builder class declares it.
CallUpdate ==
  /\ pc = "ready"
  /\ b # NoBuilder
  /\ ~b.done
  /\ b.type = BuilderClass
  /\ Len(b.calls) < MaxCalls
  /\ \E up \in cls.updaters : \E updater \in Updaters :
       LET seen == b.slots[up.slot]
           setter == cls.setters[IndexOf([i \in DOMAIN cls.setters |->
                                            cls.setters[i].name], up.setter)]
           updated == Apply(updater, seen)
       IN IF Frozen(setter.toFrozenExpr, updated) = Threw
            THEN /\ last' = Call("threw", NoName, 0)
                 /\ b' = b
            ELSE /\ last' = Call("update", up.name, seen)
                 /\ b' = AfterSet(b, setter, updated, BuilderClass)
  /\ UNCHANGED <<record, cls, pc, stmts, serializer, v>>
  /\ UNCHANGED <<fileVars, layoutVars, callVars>>

\* The serializer's "builder._u = u" on a builder it obtained itself.
SetUnrecognized ==
  /\ pc = "ready"
  /\ b # NoBuilder
  /\ ~b.done
  /\ b.type = BuilderClass
  /\ b.u = 0
  /\ b' = [b EXCEPT !.u = 1]
  /\ last' = Call("setUnrecognized", NoName, 0)
  /\ UNCHANGED <<record, cls, pc, stmts, serializer, v>>
  /\ UNCHANGED <<fileVars, layoutVars, callVars>>

\* b.build(): declared by Builder_Done, so by the Builder class too.
CallBuild ==
  /\ pc = "ready"
  /\ b # NoBuilder
  /\ ~b.done
  /\ b.type \in {Builder_Done, BuilderClass}
  /\ v' = build(cls, b)
  /\ b' = [b EXCEPT !.done = TRUE]
  /\ last' = Call("build", NoName, 0)
  /\ UNCHANGED <<record, cls, pc, stmts, serializer>>
  /\ UNCHANGED <<fileVars, layoutVars, callVars>>

Next ==
  \/ CallBuilder
  \/ CallPartialBuilder
  \/ CallToBuilder
  \/ CallSetter
  \/ CallUpdate
  \/ SetUnrecognized
  \/ CallBuild

Spec == Init /\ [][Next]_vars

(***************************************************************************)
(* The emitted enum class at run time.  An instance is a kind and a value: *)
(* null for UNKNOWN and the constants, the frozen payload for a wrapper    *)
(* variant, the unrecognized variant for an UNKNOWN the serializer made.   *)
(***************************************************************************)

\* The enums the run-time model is generated from: the first variants of
\* "do", "ab", "a", "b", declared in this order, of every shape.
IsEnumRuntimeInput(rec) ==
  \E n \in 0..MaxFields :
    \E shs \in [1..n -> VariantShapes] :
      rec = MkRecord("enum", SubSeq(RuntimeDeclared, 1, n),
                     [i \in 1..n |-> i], shs, {})

\* new C(kind, value)
NewEnum(kind, value) == [kind |-> kind, value |-> value]

\* public static final C UNKNOWN = new C(Kind.UNKNOWN, null);
UNKNOWN == NewEnum(KindUNKNOWN, Null)

\* kind.ordinal()
Ordinal(c, kind) == IndexOf(c.kinds, kind) - 1

\* The slip that compares the values of two UNKNOWNs too.
enumEqualsByValue(x, y) == x.kind = y.kind /\ x.value = y.value

\* x.equals(y)
enumEquals(x, y) ==
  IF x.kind = KindUNKNOWN THEN y.kind = KindUNKNOWN
  ELSE x.kind = y.kind /\ x.value = y.value

\* java.util.Objects.hashCode: 0 for null.
ObjectsHashCode(o) == IF o = Null THEN 0 ELSE o

\* x.hashCode()
enumHashCode(c, x) ==
  LET o == IF x.kind = KindUNKNOWN THEN Null ELSE x.value
  IN 31 * ObjectsHashCode(o) + Ordinal(c, x.kind)

\* What a call did: returned a value or threw.
Returned(value) == [threw |-> "", value |-> value]

ThrewException(exception) == [threw |-> exception, value |-> Null]

\* C.wrap<Name>(arg)
wrap(m, arg) ==
  IF Frozen(m.toFrozenExpr, arg) = Threw
    THEN ThrewException("NullPointerException")
    ELSE Returned(NewEnum(m.kind, Frozen(m.toFrozenExpr, arg)))

\* x.is<Name>()
is(m, x) == x.kind = m.isKind

\* x.as<Name>()
as(m, x) ==
  IF m.asChecks /\ x.kind # m.asKind
    THEN ThrewException("IllegalStateException")
    ELSE Returned(x.value)

\* x.accept(visitor): the callbacks the switch invokes, with their arguments.
accept(c, x) ==
  LET hits == {i \in DOMAIN c.acceptCases : c.acceptCases[i].kind = x.kind}
  IN IF hits = {}
       THEN {[callback |-> c.acceptDefault, args |-> <<>>]}
       ELSE {[callback |-> c.acceptCases[i].callback,
              args |-> IF c.acceptCases[i].callback.takesValue
                         THEN <<x.value>> ELSE <<>>] : i \in hits}

\* The instances a client can come by: the constants, what wrap<Name>
\* returns, and what the serializer makes of an unrecognized variant.
EnumValues(c) ==
  {UNKNOWN}
    \cup {NewEnum(KindUNKNOWN, u) : u \in Values}
    \cup {NewEnum(c.constants[i].kind, Eval(c.constants[i].value)) :
            i \in DOMAIN c.constants}
    \cup UNION {{wrap(c.wrappers[i], arg).value :
                   arg \in {a \in Arguments(c.wrappers[i].type) :
                              wrap(c.wrappers[i], a).threw = ""}} :
                i \in DOMAIN c.wrappers}

RegisteredEnum(c) ==
  [fields |-> SelectSeq(c.staticInit,
                        LAMBDA st : st.op \in {"addConstantVariant",
                                               "addWrapperVariant"}),
   removed |-> <<>>, finalized |-> TRUE]

InitEnum ==
  /\ NoFiles
  /\ NoLayout
  /\ NoCalls
  /\ IsEnumRuntimeInput(record)
  /\ cls = writeClassForEnum(record)
  /\ pc = "ready"
  /\ stmts = <<>>
  /\ serializer = RegisteredEnum(cls)
  /\ b = NoBuilder
  /\ v = UNKNOWN
  /\ last = NoCall

EnumKept ==
  UNCHANGED <<record, cls, pc, stmts, serializer, b, fileVars, layoutVars, callVars>>

\* C.UNKNOWN
GetUNKNOWN ==
  /\ v' = UNKNOWN
  /\ last' = Call("UNKNOWN", NoName, 0)
  /\ EnumKept

\* C.<NAME>
GetConstant ==
  /\ \E i \in DOMAIN cls.constants :
       /\ v' = NewEnum(cls.constants[i].kind, Eval(cls.constants[i].value))
       /\ last' = Call("constant", cls.constants[i].name, 0)
  /\ EnumKept

\* C.wrap<Name>(arg)
CallWrap ==
  /\ \E i \in DOMAIN cls.wrappers : \E arg \in Arguments(cls.wrappers[i].type) :
       LET out == wrap(cls.wrappers[i], arg)
       IN /\ v' = IF out.threw = "" THEN out.value ELSE v
          /\ last' = Call("wrap", cls.wrappers[i].name, [out EXCEPT !.value = arg])
  /\ EnumKept

\* The serializer's "new C(Kind.UNKNOWN, it)" for an unrecognized variant.
FromUnrecognized ==
  /\ \E it \in Values : v' = NewEnum(KindUNKNOWN, it)
  /\ last' = Call("unrecognized", NoName, 0)
  /\ EnumKept

\* v.kind()
CallKind ==
  /\ last' = Call("kind", NoName, v.kind)
  /\ v' = v
  /\ EnumKept

\* v.is<Name>()
CallIs ==
  /\ \E i \in DOMAIN cls.isAs :
       last' = Call("is", cls.isAs[i].name, is(cls.isAs[i], v))
  /\ v' = v
  /\ EnumKept

\* v.as<Name>()
CallAs ==
  /\ \E i \in DOMAIN cls.isAs :
       last' = Call("as", cls.isAs[i].name, as(cls.isAs[i], v))
  /\ v' = v
  /\ EnumKept

\* v.accept(visitor)
CallAccept ==
  /\ last' = Call("accept", NoName, accept(cls, v))
  /\ v' = v
  /\ EnumKept

\* v.equals(other), other.equals(v) and the two hash codes.
CallEquals ==
  /\ \E other \in EnumValues(cls) :
       last' = Call("equals", NoName,
                    [other |-> other,
                     equals |-> enumEquals(v, other),
                     reverse |-> enumEquals(other, v),
                     hashCode |-> enumHashCode(cls, v),
                     otherHashCode |-> enumHashCode(cls, other)])
  /\ v' = v
  /\ EnumKept

NextEnum ==
  \/ GetUNKNOWN
  \/ GetConstant
  \/ CallWrap
  \/ FromUnrecognized
  \/ CallKind
  \/ CallIs
  \/ CallAs
  \/ CallAccept
  \/ CallEquals

SpecEnum == InitEnum /\ [][NextEnum]_vars

(***************************************************************************)
(* generateCode: the source files of the modules, their paths, and the     *)
(* classes written to each (a class is its name and its nested classes).   *)
(***************************************************************************)

\* "Kind", "Builder", "Wrapper", "Constants", "Methods"
KindName == <<111, 9, 14, 4>>

BuilderName == <<102, 21, 9, 12, 4, 5, 18>>

WrapperName == <<123, 18, 1, 16, 16, 5, 18>>

ConstantsName == <<103, 15, 14, 19, 20, 1, 14, 20, 19>>

MethodsName == <<113, 5, 20, 8, 15, 4, 19>>

EndsWith(name, suffix) ==
  /\ Len(name) >= Len(suffix)
  /\ SubSeq(name, Len(name) - Len(suffix) + 1, Len(name)) = suffix

\* /[^a-z]Wrapper$/.test(name)
EndsWithUpperWrapper(name) ==
  /\ EndsWith(name, WrapperName)
  /\ Len(name) > Len(WrapperName)
  /\ name[Len(name) - Len(WrapperName)] \notin 1..26

\* while (seenNames.has(name)) name += "_";
RECURSIVE Unseen(_, _)
Unseen(name, seenNames) ==
  IF name \in seenNames THEN Unseen(Append(name, 0), seenNames) ELSE name

\* The loop of getClassName from ancestor i on.
RECURSIVE ClassNameParts(_, _, _, _)
ClassNameParts(recordAncestors, i, seenNames, parts) ==
  IF i > Len(recordAncestors) THEN parts
  ELSE LET name == recordAncestors[i]
           renamed ==
             IF \/ name = KindName
                \/ name = BuilderName
                \/ EndsWithUpperWrapper(name)
                \/ (i = 1 /\ (name = ConstantsName \/ name = MethodsName))
               THEN Append(name, 0) ELSE name
           unseen == Unseen(renamed, seenNames)
       IN ClassNameParts(recordAncestors, i + 1, seenNames \cup {unseen},
                         Append(parts, unseen))

\* Namer.getClassName: the name after the 'class' keyword and the parts of
\* the qualified name that follow the package.
getClassName(recordAncestors) ==
  LET parts == ClassNameParts(recordAncestors, 1, {}, <<>>)
  IN [name |-> parts[Len(parts)], parts |-> parts]

\* modulePath.replace(/\.skir$/, "")
WithoutSkir(modulePath) ==
  IF EndsWith(modulePath, <<46, 19, 11, 9, 18>>)
    THEN SubSeq(modulePath, 1, Len(modulePath) - 5)
    ELSE modulePath

\* text.replace(/<from>/g, to) for a one-character pattern.
RECURSIVE replaceAll(_, _, _)
replaceAll(text, from, to) ==
  IF text = <<>> THEN <<>>
  ELSE (IF Head(text) = from THEN to ELSE <<Head(text)>>)
         \o replaceAll(Tail(text), from, to)

\* text.replace("<from>", to): the first occurrence only.
RECURSIVE replaceFirst(_, _, _)
replaceFirst(text, from, to) ==
  IF text = <<>> THEN <<>>
  ELSE IF Head(text) = from THEN to \o Tail(text)
  ELSE <<Head(text)>> \o replaceFirst(Tail(text), from, to)

\* "external/"
externalPath == <<5, 24, 20, 5, 18, 14, 1, 12, 47>>

\* path.replace(/\.skir$/, "").replace(/^@/, "external/")
\*     .replace(/-/g, "_").replace(/\//g, ".")
importPath(modulePath) ==
  LET stem == WithoutSkir(modulePath)
      rooted == IF stem # <<>> /\ Head(stem) = 64
                  THEN externalPath \o Tail(stem) ELSE stem
  IN replaceAll(replaceAll(rooted, 45, <<0>>), 47, <<46>>)

\* `${this.packagePrefix}skirout.${importPath}.${parts.join(".")}`
qualifiedName(this, location) ==
  this.packagePrefix \o Skirout \o <<46>> \o importPath(location.modulePath)
    \o <<46>> \o join(getClassName(location.recordAncestors).parts, <<46>>)

\* The package that generate() declares:
\* `package ${this.packagePrefix}skirout.` +
\*   this.modulePath.replace(/\.skir$/, "").replace("/", ".")
packageOf(packagePrefix, modulePath) ==
  packagePrefix \o Skirout \o <<46>>
    \o replaceFirst(WithoutSkir(modulePath), 47, <<46>>)

\* JavaSourceFileGenerator.path
path(target, modulePath) ==
  LET className ==
        CASE target.kind = "record" -> getClassName(target.recordAncestors).name
          [] target.kind = "methods" -> MethodsName
          [] target.kind = "constants" -> ConstantsName
  IN WithoutSkir(modulePath) \o <<47>> \o className \o <<46, 10, 1, 22, 1>>

\* writeClassForRecord: the class of the record, with the classes of its
\* nested records inside.
RECURSIVE writeClassForRecord(_, _)
writeClassForRecord(rec, recordAncestors) ==
  [name |-> getClassName(recordAncestors).name,
   nested |-> [i \in DOMAIN rec.nestedRecords |->
                 writeClassForRecord(rec.nestedRecords[i],
                                     Append(recordAncestors,
                                            rec.nestedRecords[i].name))]]

\* JavaSourceFileGenerator.generate: the top-level class of the file.
generate(target) ==
  CASE target.kind = "record" ->
         writeClassForRecord(target.record, target.recordAncestors)
    [] target.kind = "methods" -> [name |-> MethodsName, nested |-> <<>>]
    [] target.kind = "constants" -> [name |-> ConstantsName, nested |-> <<>>]

\* The slip that takes every record of a module for a top-level record.
anyRecord(location) == TRUE

\* record.recordAncestors.length === 1
isTopLevel(location) == Len(location.recordAncestors) = 1

RecordTarget(location, modulePath) ==
  [kind |-> "record", record |-> location.record,
   recordAncestors |-> location.recordAncestors, modulePath |-> modulePath]

\* The source files of one module.
SourceFilesOfModule(module) ==
  LET topLevel == SelectSeq(module.records, isTopLevel)
  IN [i \in DOMAIN topLevel |-> RecordTarget(topLevel[i], module.path)]
       \o (IF module.methods > 0
             THEN <<[kind |-> "methods", modulePath |-> module.path]>>
             ELSE <<>>)
       \o (IF module.constants > 0
             THEN <<[kind |-> "constants", modulePath |-> module.path]>>
             ELSE <<>>)

\* The loop of generateCode over input.modules.
RECURSIVE SourceFilesOf(_)
SourceFilesOf(modules) ==
  IF modules = <<>> THEN <<>>
  ELSE SourceFilesOfModule(Head(modules)) \o SourceFilesOf(Tail(modules))

\* A record of a module: its name and its nested records.
Rec(name, nestedRecords) == [name |-> name, nestedRecords |-> nestedRecords]

\* The top-level records of a module: "A", "Methods", "A" then "Constants",
\* "Methods" then "Methods_"; the first of them alone, with "Kind" nested,
\* or with "Kind" and "Kind_".
TopLevelNames ==
  {<<>>, <<<<101>>>>, <<MethodsName>>, <<<<101>>, ConstantsName>>,
   <<MethodsName, Append(MethodsName, 0)>>}

NestedNames == {<<>>, <<KindName>>, <<KindName, Append(KindName, 0)>>}

ModuleShapes ==
  {[names |-> names, nested |-> nested, methods |-> m, constants |-> c] :
     names \in TopLevelNames, nested \in NestedNames, m \in 0..1, c \in 0..1}
    \ {sh \in [names : {<<>>}, nested : NestedNames \ {<<>>},
               methods : 0..1, constants : 0..1] : TRUE}

\* "a.skir", "d/b.skir", "b.skir", "d/a.skir"
ModulePaths ==
  <<<<1, 46, 19, 11, 9, 18>>, <<4, 47, 2, 46, 19, 11, 9, 18>>,
    <<2, 46, 19, 11, 9, 18>>, <<4, 47, 1, 46, 19, 11, 9, 18>>>>

\* module.records: every record of the module with its ancestors, a
\* top-level record followed by its nested records.
RECURSIVE LocationsOf(_, _)
LocationsOf(records, ancestors) ==
  IF records = <<>> THEN <<>>
  ELSE LET rec == Head(records)
           here == Append(ancestors, rec.name)
       IN <<[record |-> rec, recordAncestors |-> here]>>
            \o LocationsOf(rec.nestedRecords, here)
            \o LocationsOf(Tail(records), ancestors)

MkModule(modulePath, sh) ==
  LET nested == [i \in DOMAIN sh.nested |-> Rec(sh.nested[i], <<>>)]
      records == [i \in DOMAIN sh.names |->
                    Rec(sh.names[i], IF i = 1 THEN nested ELSE <<>>)]
  IN [path |-> modulePath, records |-> LocationsOf(records, <<>>),
      methods |-> sh.methods, constants |-> sh.constants]

IsFilesInput(modules) ==
  \E n \in 0..MaxModules :
    \E shs \in [1..n -> ModuleShapes] :
      modules = [i \in 1..n |-> MkModule(ModulePaths[i], shs[i])]

NoRecord == [recordType |-> "none"]

\* No class is being generated or used.
NoClassState ==
  /\ record = NoRecord
  /\ cls = NoClass
  /\ stmts = <<>>
  /\ serializer = NewSerializer
  /\ b = NoBuilder
  /\ v = NoInstance
  /\ last = NoCall

InitFiles ==
  /\ NoClassState
  /\ NoLayout
  /\ NoCalls
  /\ IsFilesInput(input)
  /\ javaSourceFiles = <<>>
  /\ outputFiles = <<>>
  /\ pc = "collect"

\* The loops of generateCode that create the JavaSourceFileGenerators.
CollectSourceFiles ==
  /\ pc = "collect"
  /\ javaSourceFiles' = SourceFilesOf(input)
  /\ pc' = "map"
  /\ UNCHANGED <<classVars, input, outputFiles, layoutVars, callVars>>

\* javaSourceFiles.map: the path and the code of the next source file.
GenerateFile ==
  /\ pc = "map"
  /\ Len(outputFiles) < Len(javaSourceFiles)
  /\ LET sourceFile == javaSourceFiles[Len(outputFiles) + 1]
     IN outputFiles' = Append(outputFiles,
                              [path |-> path(sourceFile, sourceFile.modulePath),
                               code |-> generate(sourceFile)])
  /\ UNCHANGED <<classVars, pc, input, javaSourceFiles, layoutVars, callVars>>

\* return { files: outputFiles };
ReturnFiles ==
  /\ pc = "map"
  /\ Len(outputFiles) = Len(javaSourceFiles)
  /\ pc' = "done"
  /\ UNCHANGED <<classVars, fileVars, layoutVars, callVars>>

NextFiles ==
  \/ CollectSourceFiles
  \/ GenerateFile
  \/ ReturnFiles

SpecFiles == InitFiles /\ [][NextFiles]_vars

(***************************************************************************)
(* The Namer and the package declaration, called on their own.             *)
(***************************************************************************)

\* Record names: A, Kind, Kind_, Builder, OkWrapper, XWrapper, Wrapper, Constants, Methods
RecordNames ==
  { <<101>>, <<111, 9, 14, 4>>, <<111, 9, 14, 4, 0>>,
    <<102, 21, 9, 12, 4, 5, 18>>, <<115, 11, 123, 18, 1, 16, 16, 5, 18>>,
    <<124, 123, 18, 1, 16, 16, 5, 18>>, <<123, 18, 1, 16, 16, 5, 18>>,
    <<103, 15, 14, 19, 20, 1, 14, 20, 19>>, <<113, 5, 20, 8, 15, 4, 19>> }

\* Module paths: a.skir, d/b.skir, a/b/c.skir, @x/y.skir, a-b.skir
NamerModulePaths ==
  { <<1, 46, 19, 11, 9, 18>>, <<4, 47, 2, 46, 19, 11, 9, 18>>,
    <<1, 47, 2, 47, 3, 46, 19, 11, 9, 18>>,
    <<64, 24, 47, 25, 46, 19, 11, 9, 18>>, <<1, 45, 2, 46, 19, 11, 9, 18>> }

\* config.packagePrefix: "", "com.", "int_.ab."
PackagePrefixes ==
  { <<>>, <<3, 15, 13, 46>>, <<9, 14, 20, 0, 46, 1, 2, 46>> }

\* Field names: a, ab, do, int, java, equals, get_class, to_builder, builder, com, skirout, not
SkirFieldNames ==
  { <<1>>, <<1, 2>>, <<4, 15>>, <<9, 14, 20>>, <<10, 1, 22, 1>>,
    <<5, 17, 21, 1, 12, 19>>, <<7, 5, 20, 0, 3, 12, 1, 19, 19>>,
    <<20, 15, 0, 2, 21, 9, 12, 4, 5, 18>>, <<2, 21, 9, 12, 4, 5, 18>>,
    <<3, 15, 13>>, <<19, 11, 9, 18, 15, 21, 20>>, <<14, 15, 20>> }

InitNamer ==
  /\ NoClassState
  /\ NoFiles
  /\ NoLayout
  /\ pc = "namer"
  /\ returned = {}
  /\ \E packagePrefix \in PackagePrefixes :
       \/ \E modulePath \in NamerModulePaths :
            \E n \in 1..MaxAncestors :
              \E recordAncestors \in [1..n -> RecordNames] :
                arguments = [op |-> "getClassName",
                             packagePrefix |-> packagePrefix,
                             modulePath |-> modulePath,
                             recordAncestors |-> recordAncestors]
       \/ \E field \in SkirFieldNames :
            arguments = [op |-> "structFieldToJavaName",
                         packagePrefix |-> packagePrefix,
                         field |-> field]

NotCalled(op) == \A r \in returned : r.op # op

Return(op, value) ==
  /\ NotCalled(op)
  /\ returned' = returned \cup {[op |-> op, value |-> value]}
  /\ UNCHANGED <<classVars, pc, fileVars, layoutVars, arguments>>

\* generate() pushes the package declaration of the file of the record.
PushPackage ==
  /\ pc = "namer"
  /\ arguments.op = "getClassName"
  /\ Return("package",
            packageOf(arguments.packagePrefix, arguments.modulePath))

\* this.namer.getClassName(record)
CallGetClassName ==
  /\ pc = "namer"
  /\ arguments.op = "getClassName"
  /\ LET this == Namer(arguments.packagePrefix)
     IN Return("getClassName",
               [name |-> getClassName(arguments.recordAncestors).name,
                qualifiedName |-> qualifiedName(this, arguments)])

\* this.namer.structFieldToJavaName(field)
CallStructFieldToJavaName ==
  /\ pc = "namer"
  /\ arguments.op = "structFieldToJavaName"
  /\ Return("structFieldToJavaName",
            structFieldToJavaName(Namer(arguments.packagePrefix),
                                  arguments.field))

NextNamer == PushPackage \/ CallGetClassName \/ CallStructFieldToJavaName

SpecNamer == InitNamer /\ [][NextNamer]_vars

(***************************************************************************)
(* The four translations called on their own, each on the same resolved    *)
(* type.  The records of the schema:                                       *)
(*   struct Foo { id: int32; kind: E; do: string; user_id: hash64; }       *)
(*   struct Bar { foo: Foo; }                                              *)
(*   enum E                                                                *)
(***************************************************************************)

\* The primitive types the translations switch over: TypeSpeller names the
\* unsigned 64-bit one hash64, getDefaultExpression and toFrozenExpression
\* name it uint64.
PrimitiveTypes ==
  {"bool", "int32", "int64", "hash64", "uint64", "float32", "float64",
   "timestamp", "string", "bytes"}

Key(keyPath, keyType) == [path |-> keyPath, keyType |-> keyType]

\* The key paths a keyed array of the struct can carry: id, kind, do and
\* user_id of Foo; foo.id and foo.kind of Bar.
KeysOf(key) ==
  CASE key = "Foo" ->
         {Key(<<<<9, 4>>>>, Primitive("int32")),
          Key(<<<<11, 9, 14, 4>>>>, RecordType("E")),
          Key(<<<<4, 15>>>>, Primitive("string")),
          Key(<<<<21, 19, 5, 18, 0, 9, 4>>>>, Primitive("hash64"))}
    [] key = "Bar" ->
         {Key(<<<<6, 15, 15>>, <<9, 4>>>>, Primitive("int32")),
          Key(<<<<6, 15, 15>>, <<11, 9, 14, 4>>>>, RecordType("E"))}
    [] OTHER -> {}

\* The resolved types with at most depth arrays and optionals around a
\* primitive or a record.
RECURSIVE ResolvedTypes(_)
ResolvedTypes(depth) ==
  IF depth = 0
    THEN {Primitive(p) : p \in PrimitiveTypes}
         \cup {RecordType(k) : k \in DOMAIN recordMap}
    ELSE LET inner == ResolvedTypes(depth - 1)
         IN inner
            \cup {ArrayType(t, undefined) : t \in inner}
            \cup UNION {{ArrayType(RecordType(k), key) : key \in KeysOf(k)} :
                          k \in DOMAIN recordMap}
            \cup {OptionalType(t) : t \in inner}

TypeFlavors == {"initializer", "frozen", "frozen-key"}

InitTypes ==
  /\ NoClassState
  /\ NoFiles
  /\ NoLayout
  /\ pc = "types"
  /\ returned = {}
  /\ \E type \in ResolvedTypes(MaxDepth) :
       arguments = [op |-> "translate", type |-> type]

\* typeSpeller.getJavaType(type, flavor, mustBeObject)
CallGetJavaType ==
  /\ pc = "types"
  /\ \E flavor \in TypeFlavors :
       \E mustBeObject \in {"must-be-object", "undefined"} :
         Return("getJavaType",
                [flavor |-> flavor, mustBeObject |-> mustBeObject,
                 text |-> getJavaType(arguments.type, flavor, mustBeObject)])

\* this.getDefaultExpression(type)
CallGetDefaultExpression ==
  /\ pc = "types"
  /\ Return("getDefaultExpression", getDefaultExpression(arguments.type))

\* this.toFrozenExpression("value", type, nullability, "_e")
CallToFrozenExpression ==
  /\ pc = "types"
  /\ \E nullability \in {"can-be-null", "never-null"} :
       Return("toFrozenExpression",
              [nullability |-> nullability,
               text |-> toFrozenExpression(<<Tok("value")>>, arguments.type,
                                           nullability, <<Tok("_e")>>)])

\* typeSpeller.getSerializerExpression(type)
CallGetSerializerExpression ==
  /\ pc = "types"
  /\ Return("getSerializerExpression",
            getSerializerExpression(arguments.type))

NextTypes ==
  \/ CallGetJavaType
  \/ CallGetDefaultExpression
  \/ CallToFrozenExpression
  \/ CallGetSerializerExpression

SpecTypes == InitTypes /\ [][NextTypes]_vars

(***************************************************************************)
(* joinLinesAndFixFormatting: the layout engine.                           *)
(***************************************************************************)

\* What String.trim and \s take for white space, of the characters of the
\* model.
WhiteSpace == {" ", "\n"}

RECURSIVE trimStart(_)
trimStart(line) ==
  IF line # <<>> /\ Head(line) \in WhiteSpace THEN trimStart(Tail(line))
  ELSE line

RECURSIVE trimEnd(_)
trimEnd(line) ==
  IF line # <<>> /\ line[Len(line)] \in WhiteSpace
    THEN trimEnd(SubSeq(line, 1, Len(line) - 1))
    ELSE line

trim(line) == trimEnd(trimStart(line))

indentUnit == <<" ", " ">>

RECURSIVE repeat(_, _)
repeat(unit, n) == IF n <= 0 THEN <<>> ELSE unit \o repeat(unit, n - 1)

\* contextStack.at(-1): undefined ("") on an empty stack.
peakTop(stack) == IF stack = <<>> THEN "" ELSE stack[Len(stack)]

pop(stack) == SubSeq(stack, 1, Len(stack) - 1)

getMatchingLeftBracket(r) ==
  CASE r = "}" -> "{"
    [] r = ")" -> "("
    [] r = "]" -> "["
    [] r = ">" -> "<"

\* The slip that pops one marker and takes it for the matching one.
popOnce(stack, left) ==
  IF stack = <<>> THEN [threw |-> TRUE, stack |-> stack]
  ELSE [threw |-> FALSE, stack |-> pop(stack)]

\* while (contextStack.pop() !== left) { if (length <= 0) throw Error(); }
RECURSIVE popUntil(_, _)
popUntil(stack, left) ==
  IF peakTop(stack) = left THEN [threw |-> FALSE, stack |-> pop(stack)]
  ELSE IF Len(pop(stack)) <= 0 THEN [threw |-> TRUE, stack |-> <<>>]
  ELSE popUntil(pop(stack), left)

\* The switch on the first character of a trimmed line.
afterFirstChar(stack, line) ==
  CASE line[1] \in {"}", ")", "]", ">"} ->
         popUntil(stack, getMatchingLeftBracket(line[1]))
    [] line[1] = "." ->
         [threw |-> FALSE,
          stack |-> IF peakTop(stack) # "." THEN Append(stack, ".") ELSE stack]
    [] OTHER -> [threw |-> FALSE, stack |-> stack]

\* The slip that gives a line starting with '*' no extra space.
plainIndent(stack, line) == repeat(indentUnit, Len(stack))

\* indentUnit.repeat(contextStack.length) + (line.startsWith("*") ? " " : "")
indent(stack, line) ==
  repeat(indentUnit, Len(stack)) \o (IF line[1] = "*" THEN <<" ">> ELSE <<>>)

\* The slip that lets ';' and ',' pop whatever marker is on top.
afterLastCharPoppingAny(stack, line) ==
  LET lastChar == line[Len(line)]
  IN CASE lastChar \in {"{", "(", "[", "<"} -> Append(stack, lastChar)
       [] lastChar \in {":", "="} ->
            IF peakTop(stack) # ":" THEN Append(stack, ":") ELSE stack
       [] lastChar \in {";", ","} -> pop(stack)
       [] OTHER -> stack

\* The switch on the last character of a trimmed line that is no comment.
afterLastChar(stack, line) ==
  LET lastChar == line[Len(line)]
  IN CASE lastChar \in {"{", "(", "[", "<"} -> Append(stack, lastChar)
       [] lastChar \in {":", "="} ->
            IF peakTop(stack) # ":" THEN Append(stack, ":") ELSE stack
       [] lastChar \in {";", ","} ->
            IF peakTop(stack) = "." \/ peakTop(stack) = ":"
              THEN pop(stack) ELSE stack
       [] OTHER -> stack

\* The slip that takes the lines starting with '/' for the only comments.
isLineComment(line) == line[1] = "/"

\* line.startsWith("/") || line.startsWith("*")
isComment(line) == line[1] = "/" \/ line[1] = "*"

\* The length of the run of characters of set at position i of text.
RECURSIVE runLength(_, _, _)
runLength(text, i, set) ==
  IF i <= Len(text) /\ text[i] \in set THEN 1 + runLength(text, i + 1, set)
  ELSE 0

At(text, i) == IF i \in 1..Len(text) THEN text[i] ELSE ""

\* The length of the match of a regular expression of the return statement
\* at position i of text, 0 when it does not match there.
matchLength(regex, text, i) ==
  LET spaces == runLength(text, i + 1, WhiteSpace)
      blanks == runLength(text, i + 2, {" "})
      newlines == runLength(text, i, {"\n"})
      pair(left, right) ==
        IF text[i] = left /\ spaces >= 1 /\ At(text, i + 1 + spaces) = right
          THEN spaces + 2 ELSE 0
  IN CASE regex = "{\\s+}" -> pair("{", "}")
       [] regex = "(\\s+)" -> pair("(", ")")
       [] regex = "[\\s+]" -> pair("[", "]")
       [] regex = "({\\n *)\\n" ->
            IF /\ text[i] = "{"
               /\ At(text, i + 1) = "\n"
               /\ At(text, i + 2 + blanks) = "\n"
              THEN blanks + 3 ELSE 0
       [] regex = "\\n(\\n *})" ->
            IF /\ text[i] = "\n"
               /\ At(text, i + 1) = "\n"
               /\ At(text, i + 2 + blanks) = "}"
              THEN blanks + 3 ELSE 0
       [] regex = "\\n\\n\\n+" -> IF newlines >= 3 THEN newlines ELSE 0
       [] regex = "\\n\\n$" ->
            IF text[i] = "\n" /\ At(text, i + 1) = "\n" /\ i + 1 = Len(text)
              THEN 2 ELSE 0

\* What the return statement puts in the place of a match.
replacement(regex, match) ==
  CASE regex = "{\\s+}" -> <<"{", "}">>
    [] regex = "(\\s+)" -> <<"(", ")">>
    [] regex = "[\\s+]" -> <<"[", "]">>
    [] regex = "({\\n *)\\n" -> SubSeq(match, 1, Len(match) - 1)
    [] regex = "\\n(\\n *})" -> SubSeq(match, 2, Len(match))
    [] regex = "\\n\\n\\n+" -> <<"\n", "\n">>
    [] regex = "\\n\\n$" -> <<"\n">>

\* String.replace with a global regular expression: the matches are looked
\* for from left to right, each search starting where the last match ended,
\* and what was put in the place of a match is not searched again.
RECURSIVE replaceFrom(_, _, _)
replaceFrom(text, regex, i) ==
  IF i > Len(text) THEN <<>>
  ELSE LET n == matchLength(regex, text, i)
       IN IF n > 0
            THEN replacement(regex, SubSeq(text, i, i + n - 1))
                   \o replaceFrom(text, regex, i + n)
            ELSE <<text[i]>> \o replaceFrom(text, regex, i + 1)

replace(text, regex) == replaceFrom(text, regex, 1)

\* The slip that leaves the empty pairs of brackets as they are.
fixFormattingKeepingPairs(text) ==
  replace(replace(replace(replace(text,
    "({\\n *)\\n"), "\\n(\\n *})"), "\\n\\n\\n+"), "\\n\\n$")

\* The chain of replacements of the return statement.
fixFormatting(text) ==
  replace(replace(replace(replace(replace(replace(replace(text,
    "{\\s+}"), "(\\s+)"), "[\\s+]"),
    "({\\n *)\\n"), "\\n(\\n *})"), "\\n\\n\\n+"), "\\n\\n$")

\* The header comment that generate() pushes before anything else.
HeaderLine == <<"/", "/">>

\* The lines a source file is made of, other than its header.
Lines ==
  { <<>>,                        \* an empty line
    <<"f", "(">>,
    <<"b", ",">>,
    <<")">>,
    <<"{">>,
    <<" ", "}">>,
    <<"[">>,
    <<"]", ";">>,
    <<">">>,
    <<".", "c">>,
    <<"x", "=">>,
    <<"x", " ", "=", " ", "(">>,
    <<"y", ";">>,
    <<"*", "(">> }                \* a line of a block comment

InitLayout ==
  /\ NoClassState
  /\ NoFiles
  /\ NoCalls
  /\ pc = "join"
  /\ \E n \in 0..MaxLines :
       \E lines \in [1..n -> Lines] : code = <<HeaderLine>> \o lines
  /\ lineIndex = 0
  /\ contextStack = <<>>
  /\ result = <<>>

\* One turn of the loop over the lines of the code.
LayOutLine ==
  /\ pc = "join"
  /\ lineIndex < Len(code)
  /\ lineIndex' = lineIndex + 1
  /\ LET line == trim(code[lineIndex + 1])
     IN IF Len(line) <= 0
          THEN /\ result' = Append(result, "\n")
               /\ UNCHANGED <<pc, contextStack>>
          ELSE LET first == afterFirstChar(contextStack, line)
               IN IF first.threw
                    THEN /\ pc' = "threw"
                         /\ contextStack' = first.stack
                         /\ UNCHANGED result
                    ELSE /\ result' = result \o indent(first.stack, line)
                                        \o trimEnd(line) \o <<"\n">>
                         /\ contextStack' =
                              IF isComment(line) THEN first.stack
                              ELSE afterLastChar(first.stack, line)
                         /\ UNCHANGED pc
  /\ UNCHANGED <<classVars, fileVars, callVars, code>>

\* The return statement.
FixFormatting ==
  /\ pc = "join"
  /\ lineIndex = Len(code)
  /\ pc' = "returned"
  /\ result' = fixFormatting(result)
  /\ UNCHANGED <<classVars, fileVars, callVars, code, lineIndex, contextStack>>

NextLayout == LayOutLine \/ FixFormatting

SpecLayout == InitLayout /\ [][NextLayout]_vars

(***************************************************************************)
(* Properties                                                              *)
(***************************************************************************)

\* x comes before y in lexicographic (dictionary) order.
LexLess(x, y) ==
  \E k \in 1..(Len(y)) :
    /\ \A i \in 1..(k - 1) : i <= Len(x) /\ x[i] = y[i]
    /\ k - 1 <= Len(x)
    /\ (k > Len(x) \/ x[k] < y[k])

NameSet(rec) == {rec.fields[i].name : i \in DOMAIN rec.fields}

\* The field names of rec, f0..f(N-1), in ascending lexicographic order.
NamesInOrder(rec) ==
  CHOOSE s \in [1..Len(rec.fields) -> NameSet(rec)] :
    \A i, j \in DOMAIN s : i < j => LexLess(s[i], s[j])

FieldNamed(rec, name) ==
  rec.fields[CHOOSE i \in DOMAIN rec.fields : rec.fields[i].name = name]

IsStructClass == cls.recordType = "struct"

\* C1: the stage interfaces form one linear chain over the name-sorted
\* fields: builder() returns the stage of f0 (Builder_Done without fields),
\* the stage of f_i has the single setter of f_i, returning the stage of
\* f_(i+1) (Builder_Done after the last), Builder_Done has no setter; so a
\* client that goes through the types from builder() has called the setters
\* of a prefix f0..f(k-1) in this order, each once, holds the stage of f_k,
\* and has called build() only after all N setters.
C1_StagedChain ==
  IsStructClass =>
    LET names == NamesInOrder(record)
        N == Len(names)
        stage(i) == IF i <= N THEN UpperCamel(names[i]) ELSE Builder_Done
    IN /\ Len(cls.stages) = N
       /\ Cardinality({stage(i) : i \in 1..(N + 1)}) = N + 1
       /\ cls.builderRet = stage(1)
       /\ \A i \in 1..N :
            /\ cls.stages[i].iface = stage(i)
            /\ cls.stages[i].setter = UpperCamel(names[i])
            /\ cls.stages[i].ret = stage(i + 1)
       /\ SettersOf(cls, Builder_Done) = {}
       /\ \A i \in 1..N : Cardinality(SettersOf(cls, stage(i))) = 1
       /\ (b # NoBuilder /\ b.origin = "builder") =>
            \E k \in 0..N :
              /\ b.calls = [i \in 1..k |-> UpperCamel(names[i])]
              /\ b.type = stage(k + 1)
              /\ b.done => k = N

\* C1: a client has built an instance through the stages of two or more
\* fields.
C1_Witness ==
  /\ b # NoBuilder
  /\ b.origin = "builder"
  /\ b.done
  /\ Len(b.calls) >= 2
  /\ last.op = "build"

JavaNamesInOrder(rec) ==
  [i \in 1..Len(rec.fields) |-> structFieldToJavaName(namer, NamesInOrder(rec)[i])]

\* C2: the emitted struct class lists the fields in ascending lexicographic
\* order of their names, whatever the declaration order and the numbers, in
\* the storage slots, the parameters of the full constructor and of the
\* Builder's, the arguments of toBuilder() and build(), the stage chain and
\* the equality proxy.
C2_SortedByName ==
  IsStructClass =>
    LET java == JavaNamesInOrder(record)
    IN /\ cls.slots = java
       /\ cls.ctorParams = java
       /\ cls.toBuilderArgs = java
       /\ cls.builderCtorParams = java
       /\ cls.buildArgs = java
       /\ cls.equalsProxy = java
       /\ [i \in DOMAIN cls.stages |-> cls.stages[i].iface]
            = [i \in DOMAIN java |-> UpperCamel(NamesInOrder(record)[i])]
       /\ [i \in DOMAIN cls.setters |-> cls.setters[i].slot] = java

\* C2: a class was emitted for a struct declared in descending name order
\* whose numbers ascend in declaration order.
C2_Witness ==
  /\ IsStructClass
  /\ Len(record.fields) >= 2
  /\ LexLess(record.fields[2].name, record.fields[1].name)
  /\ record.fields[1].number < record.fields[2].number

SlotOf(name) == structFieldToJavaName(namer, name)

GetterNamed(c, name) ==
  c.getters[CHOOSE i \in DOMAIN c.getters : c.getters[i].name = SlotOf(name)]

\* The instances at hand: DEFAULT and the last one built.
Instances == {DEFAULT(cls), v}

FieldsEqual(c, x, y) ==
  \A i \in DOMAIN c.getters : Get(c.getters[i], x) = Get(c.getters[i], y)

\* C3: the instance partialBuilder().build() returns when no setter was
\* called equals DEFAULT, and so does the instance built through builder()
\* with every field set to the default value of its type.
C3_BuildsDefault ==
  ( /\ last.op = "build"
    /\ \/ b.origin = "partialBuilder" /\ b.calls = <<>>
       \/ b.origin = "builder" /\ \A n \in DOMAIN b.slots : b.slots[n] = 0 )
  => equals(cls, v, DEFAULT(cls))

\* C4: two instances are equal if and only if every accessor returns the
\* same value on both, whatever their payloads _u, and equal instances have
\* equal hash codes.
C4_Equality ==
  \A x, y \in Instances :
    /\ equals(cls, x, y) <=> FieldsEqual(cls, x, y)
    /\ equals(cls, x, y) => hashCode(cls, x) = hashCode(cls, y)

InitOf(inits, name) ==
  inits[CHOOSE i \in DOMAIN inits : inits[i].slot = SlotOf(name)].expr

C6_Accessors ==
  \A x \in Instances : \A i \in DOMAIN record.fields :
    LET f == record.fields[i]
        slot == x.slots[SlotOf(f.name)]
        got == Get(GetterNamed(cls, f.name), x)
    IN /\ got = IF f.isRecursive = "hard" /\ slot = Null THEN 0 ELSE slot
       /\ got # Null

\* C6: the last instance built has a hard recursive field whose slot is
\* null and one whose slot holds a value other than the default.
C6_Witness ==
  /\ last.op = "build"
  /\ \E i, j \in DOMAIN record.fields :
       /\ record.fields[i].isRecursive = "hard"
       /\ record.fields[j].isRecursive = "hard"
       /\ v.slots[SlotOf(record.fields[i].name)] = Null
       /\ v.slots[SlotOf(record.fields[j].name)] = 1

SetterNamed(c, name) ==
  c.setters[CHOOSE i \in DOMAIN c.setters : c.setters[i].name = name]

\* C7: v.toBuilder() holds the slots and the payload of v; build() on it
\* returns an instance equal to v, with the payload of v when build() comes
\* right after toBuilder(); and after one setter call build() returns an
\* instance that differs from v in the slot of that setter at most.
C7_RoundTrip ==
  [][ /\ (last'.op = "toBuilder" /\ b' # b) =>
            /\ b'.slots = [n \in Range(cls.slots) |-> v.slots[n]]
            /\ b'.u = v.u
      /\ (last'.op = "build" /\ b.origin = "toBuilder" /\ ~b.done) =>
            /\ b.calls = <<>> =>
                 /\ v'.slots = v.slots
                 /\ equals(cls, v', v)
                 /\ FieldsEqual(cls, v', v)
                 /\ last.op = "toBuilder" => v'.u = v.u
            /\ Len(b.calls) = 1 =>
                 \A n \in DOMAIN v.slots :
                   n # SetterNamed(cls, b.calls[1]).slot
                     => v'.slots[n] = v.slots[n]
    ]_vars

\* C7: an instance was built from the builder of an instance with a payload
\* after one setter call that changed a field, another field keeping a value
\* other than the default.
C7_Witness ==
  /\ last.op = "build"
  /\ b.origin = "toBuilder"
  /\ Len(b.calls) = 1
  /\ v.u = 1
  /\ \E n \in DOMAIN v.slots :
       /\ n # SetterNamed(cls, b.calls[1]).slot
       /\ v.slots[n] = 1
  /\ v.slots[SetterNamed(cls, b.calls[1]).slot] = 0

\* C8: the Builder has update<Name> for the fields of struct type and for no
\* other; the updater receives the current value of the field, never null,
\* and an update leaves the other fields of the builder as they were.
C8_Update ==
  /\ {up.name : up \in cls.updaters}
       = {UpperCamel(record.fields[i].name) :
            i \in {j \in DOMAIN record.fields : record.fields[j].type = "struct"}}
  /\ last.op = "update" => last.arg # Null
  /\ (last.op = "update" /\ b.origin = "toBuilder" /\ Len(b.calls) = 1) =>
       \A n \in DOMAIN b.slots :
         n # SetterNamed(cls, b.calls[1]).slot => b.slots[n] = v.slots[n]

IsStructRecord == record.recordType = "struct"

\* C9 as stated: the fields are registered in ascending number order.
C9_AscendingNumbers ==
  IsStructRecord =>
    \A i, j \in DOMAIN serializer.fields :
      i < j => serializer.fields[i].number < serializer.fields[j].number

\* What the static initializer registers for the field named name.
Registration(rec, name) ==
  LET f == FieldNamed(rec, name)
  IN [op |-> "addField", name |-> f.name, number |-> f.number,
      serializer |-> getSerializerExpression(ResolvedType(f.type)),
      getter |-> SlotOf(f.name), setter |-> SlotOf(f.name)]

\* C9: the static initializer of a struct registers the fields in ascending
\* order of their names, each with its wire name, number, serializer
\* expression, accessor and setter into the Builder; all of them are
\* registered when the serializer is finalized.
C9_RegisteredInNameOrder ==
  IsStructRecord =>
    LET names == NamesInOrder(record)
        k == Len(serializer.fields)
    IN /\ k <= Len(names)
       /\ serializer.fields = [i \in 1..k |-> Registration(record, names[i])]
       /\ serializer.finalized => k = Len(names)

\* C9: the serializer of a struct is finalized whose first field by name
\* has a greater number than the second.
C9_Witness ==
  /\ IsStructRecord
  /\ serializer.finalized
  /\ Len(serializer.fields) >= 2
  /\ serializer.fields[1].number > serializer.fields[2].number
  /\ LexLess(serializer.fields[1].name, serializer.fields[2].name)

LiveNumbers(rec) == {rec.fields[i].number : i \in DOMAIN rec.fields}

RegisteredLive == [i \in DOMAIN serializer.fields |-> serializer.fields[i].number]

NoDuplicates(seq) == Cardinality(Range(seq)) = Len(seq)

\* C10: for a struct or an enum with removed numbers R and live numbers L,
\* the static initializer registers no number twice, registers as removed
\* numbers of R only, registers fields or variants at numbers of L only and
\* never at a number of R, and has registered all of R as removed and a
\* field or variant at all of L when the serializer is finalized.
C10_RemovedNumbers ==
  LET R == Range(record.removedNumbers)
      L == LiveNumbers(record)
  IN /\ NoDuplicates(serializer.removed)
     /\ NoDuplicates(RegisteredLive)
     /\ Range(serializer.removed) \subseteq R
     /\ Range(RegisteredLive) \subseteq L
     /\ Range(RegisteredLive) \cap R = {}
     /\ serializer.finalized =>
          /\ Range(serializer.removed) = R
          /\ Range(RegisteredLive) = L

\* C10: the serializer of a record with two removed numbers, one of them
\* below a live number, is finalized.
C10_Witness ==
  /\ serializer.finalized
  /\ Len(serializer.removed) >= 2
  /\ \E i \in DOMAIN serializer.fields :
       serializer.removed[1] < serializer.fields[i].number

IsEnumClass == cls.recordType = "enum"

ConstantVariants(rec) == SelectSeq(rec.fields, LAMBDA x : x.type = "none")

WrapperVariants(rec) == SelectSeq(rec.fields, LAMBDA x : x.type # "none")

\* The discriminant of the k-th wrapper variant: Kind lists UNKNOWN, the
\* constant variants, then the wrapper variants.
WrapperDiscriminant(k) == cls.kinds[1 + Len(ConstantVariants(record)) + k]

\* The position among the wrapper variants of the one whose methods are
\* wrap<name>, is<name> and as<name>.
WrapperCalled(name) ==
  CHOOSE k \in DOMAIN WrapperVariants(record) :
    UpperCamel(WrapperVariants(record)[k].name) = name

\* C11: the discriminants are pairwise distinct; wrapX(arg), when it
\* returns, returns an instance with X's discriminant and the payload arg;
\* isX() is true exactly on the instances with X's discriminant; asX()
\* returns the payload of an instance with X's discriminant and throws
\* IllegalStateException on every other instance.
C11_WrapIsAs ==
  /\ NoDuplicates(cls.kinds)
  /\ last.op = "wrap" /\ last.arg.threw = "" =>
       /\ v.kind = WrapperDiscriminant(WrapperCalled(last.field))
       /\ v.value = last.arg.value
  /\ last.op = "is" =>
       last.arg = (v.kind = WrapperDiscriminant(WrapperCalled(last.field)))
  /\ last.op = "as" =>
       IF v.kind = WrapperDiscriminant(WrapperCalled(last.field))
         THEN last.arg = Returned(v.value)
         ELSE last.arg = ThrewException("IllegalStateException")

\* C11: asX() was called on an instance that wraps a payload of another
\* variant.
C11_Witness ==
  /\ last.op = "as"
  /\ last.arg.threw = "IllegalStateException"
  /\ v.kind.suffix = "_WRAPPER"
  /\ v.value = 1

\* The callback accept is to invoke on x, and its arguments: by the
\* position of x's kind in Kind.
ExpectedCallback(x) ==
  LET ordinal == Ordinal(cls, x.kind)
      nConst == Len(ConstantVariants(record))
  IN IF ordinal = 0 THEN [callback |-> onUnknown, args |-> <<>>]
     ELSE IF ordinal <= nConst
       THEN [callback |->
               Callback(UpperCamel(ConstantVariants(record)[ordinal].name), FALSE),
             args |-> <<>>]
       ELSE [callback |->
               Callback(UpperCamel(WrapperVariants(record)[ordinal - nConst].name),
                        TRUE),
             args |-> <<x.value>>]

\* C12: the Visitor declares onUnknown and one callback per variant, all
\* different; accept invokes exactly one of them: the variant's own callback
\* for a constant variant, the variant's callback with the payload for a
\* wrapper variant, onUnknown for UNKNOWN, with or without an unrecognized
\* variant.
C12_AcceptTotal ==
  /\ NoDuplicates(cls.visitor)
  /\ Len(cls.visitor) = 1 + Len(record.fields)
  /\ last.op = "accept" =>
       /\ Cardinality(last.arg) = 1
       /\ last.arg = {ExpectedCallback(v)}
       /\ \A inv \in last.arg : inv.callback \in Range(cls.visitor)

\* C12: accept was called on a constant of an enum that has a wrapper
\* variant too.
C12_Witness ==
  /\ last.op = "accept"
  /\ v.kind.suffix = "_CONST"
  /\ WrapperVariants(record) # <<>>

\* C13: two instances of kind UNKNOWN are equal whatever unrecognized
\* variant they carry; two instances of other kinds are equal if and only if
\* they have the same kind and equal values; an UNKNOWN equals no instance
\* of another kind; equals is symmetric, and equal instances have equal hash
\* codes.
C13_EnumEquality ==
  last.op = "equals" =>
    LET other == last.arg.other
        isEqual == last.arg.equals
    IN /\ (v.kind = KindUNKNOWN /\ other.kind = KindUNKNOWN) => isEqual
       /\ (v.kind # KindUNKNOWN /\ other.kind # KindUNKNOWN) =>
            (isEqual <=> (v.kind = other.kind /\ v.value = other.value))
       /\ ((v.kind = KindUNKNOWN) # (other.kind = KindUNKNOWN)) => ~isEqual
       /\ isEqual = last.arg.reverse
       /\ isEqual => last.arg.hashCode = last.arg.otherHashCode

\* C13: two UNKNOWNs carrying different unrecognized variants were compared.
C13_Witness ==
  /\ last.op = "equals"
  /\ v.kind = KindUNKNOWN
  /\ last.arg.other.kind = KindUNKNOWN
  /\ v.value = 1
  /\ last.arg.other.value = 0
  /\ last.arg.equals

\* dir/<className>.java
ClassFile(dir, className) == dir \o <<47>> \o className \o <<46, 10, 1, 22, 1>>

\* The module path without its ".skir".
DirOf(module) == SubSeq(module.path, 1, Len(module.path) - 5)

TopLevelOf(module) ==
  {i \in DOMAIN module.records : Len(module.records[i].recordAncestors) = 1}

\* The class name of a top-level record: "Constants" and "Methods" (like
\* "Kind" and "Builder") get a '_'.
TopLevelClassName(name) ==
  IF name \in {ConstantsName, MethodsName, KindName, BuilderName}
    THEN Append(name, 0) ELSE name

FilesAt(filePath) == {j \in DOMAIN outputFiles : outputFiles[j].path = filePath}

RECURSIVE Sum(_, _)
Sum(f, S) ==
  IF S = {} THEN 0
  ELSE LET x == CHOOSE y \in S : TRUE IN f[x] + Sum(f, S \ {x})

\* C14: what generateCode returns has, for every module, exactly one file
\* per top-level record, at <module path without .skir>/<class name>.java,
\* holding the class of the record with the classes of its nested records
\* inside; one Methods.java if and only if the module has a method; one
\* Constants.java if and only if it has a constant; and no other file.
C14_Files ==
  pc = "done" =>
    /\ Len(outputFiles)
         = Sum([i \in DOMAIN input |->
                  Cardinality(TopLevelOf(input[i]))
                    + (IF input[i].methods > 0 THEN 1 ELSE 0)
                    + (IF input[i].constants > 0 THEN 1 ELSE 0)],
               DOMAIN input)
    /\ \A j \in DOMAIN outputFiles :
         \E i \in DOMAIN input :
           outputFiles[j].path = ClassFile(DirOf(input[i]), outputFiles[j].code.name)
    /\ \A i \in DOMAIN input :
         LET module == input[i]
             dir == DirOf(module)
         IN /\ \A r \in TopLevelOf(module) :
                 LET rec == module.records[r].record
                     files == FilesAt(ClassFile(dir, TopLevelClassName(rec.name)))
                     sameClass ==
                       {q \in TopLevelOf(module) :
                          TopLevelClassName(module.records[q].record.name)
                            = TopLevelClassName(rec.name)}
                 IN /\ Cardinality(files) = Cardinality(sameClass)
                    /\ \E j \in files :
                         /\ outputFiles[j].code.name = TopLevelClassName(rec.name)
                         /\ Len(outputFiles[j].code.nested) = Len(rec.nestedRecords)
                         /\ \A k \in DOMAIN rec.nestedRecords :
                              LET nestedName == rec.nestedRecords[k].name
                              IN /\ SubSeq(outputFiles[j].code.nested[k].name, 1,
                                           Len(nestedName)) = nestedName
                                 /\ FilesAt(ClassFile(dir, nestedName)) = {}
                                 /\ FilesAt(ClassFile(dir, Append(nestedName, 0))) = {}
            /\ Cardinality(FilesAt(ClassFile(dir, MethodsName)))
                 = IF module.methods > 0 THEN 1 ELSE 0
            /\ Cardinality(FilesAt(ClassFile(dir, ConstantsName)))
                 = IF module.constants > 0 THEN 1 ELSE 0

\* C14: generateCode returned the files of two modules, one of them with a
\* top-level record "Methods" that has nested records, with methods and
\* without constants, the other one with constants and without methods.
C14_Witness ==
  /\ pc = "done"
  /\ Len(input) = 2
  /\ \E i, k \in DOMAIN input :
       /\ input[i].methods > 0
       /\ input[i].constants = 0
       /\ \E r \in TopLevelOf(input[i]) :
            /\ input[i].records[r].record.name = MethodsName
            /\ Len(input[i].records[r].record.nestedRecords) = 2
       /\ input[k].methods = 0
       /\ input[k].constants > 0

\* The names of the classes nested directly in one class are all different.
RECURSIVE SiblingsDiffer(_)
SiblingsDiffer(class) ==
  /\ NoDuplicates([k \in DOMAIN class.nested |-> class.nested[k].name])
  /\ \A k \in DOMAIN class.nested : SiblingsDiffer(class.nested[k])

\* C15: generation stops with an error when two records with the same
\* parent resolve to the same class name, so that no file generateCode has
\* generated declares two sibling classes of the same name.
C15_NoClashingSiblings ==
  \A j \in DOMAIN outputFiles : SiblingsDiffer(outputFiles[j].code)

(***************************************************************************)
(* The layout engine.                                                      *)
(***************************************************************************)

ClosingBrackets == {"}", ")", "]", ">"}

OpeningOf == [r \in ClosingBrackets |->
  IF r = "}" THEN "{" ELSE IF r = ")" THEN "(" ELSE IF r = "]" THEN "[" ELSE "<"]

\* The line the engine lays out in a step, trimmed.
LineOf(i) == trim(code[i])

\* A step of the loop that lays out a non-empty line.
LaysOutLine ==
  /\ pc = "join"
  /\ lineIndex' = lineIndex + 1
  /\ LineOf(lineIndex') # <<>>

\* The positions of the stack that hold a marker.
Holding(stack, marker) == {k \in DOMAIN stack : stack[k] = marker}

Greatest(S) == CHOOSE k \in S : \A j \in S : j <= k

Spaces(n) == [k \in 1..n |-> " "]

\* What the last character of a line may do to the stack.
AfterLine(stack) ==
  {stack, SubSeq(stack, 1, Len(stack) - 1)}
    \cup {Append(stack, marker) : marker \in {"{", "(", "[", "<", ":", "."}}

\* C16: a line starting with a closing bracket pops the stack up to and
\* including the nearest matching opening marker, so that the line is laid
\* out at the depth below that marker; the engine throws if and only if the
\* stack holds no matching opening marker, and then it emits nothing more
\* and never returns a text.
C16_ClosingBrackets ==
  [][/\ LaysOutLine =>
          LET line == LineOf(lineIndex')
              closes == line[1] \in ClosingBrackets
              matching == IF closes
                            THEN Holding(contextStack, OpeningOf[line[1]])
                            ELSE {}
          IN /\ pc' = "threw" <=> (closes /\ matching = {})
             /\ pc' = "threw" => result' = result
             /\ closes /\ matching # {} =>
                  LET below == SubSeq(contextStack, 1, Greatest(matching) - 1)
                  IN /\ result' = result \o Spaces(2 * Len(below))
                                    \o line \o <<"\n">>
                     /\ contextStack' \in AfterLine(below)
     /\ pc = "threw" => pc' = "threw" /\ result' = result]_vars

\* The engine has thrown at a closing bracket after it had laid out another
\* one whose opening marker lay under a ':' marker.
C16_Witness ==
  /\ pc = "threw"
  /\ lineIndex = 5
  /\ code[2] = <<"f", "(">>
  /\ code[3] = <<"x", "=">>
  /\ code[4] = <<")">>
  /\ code[5] = <<">">>
  /\ result = <<"/", "/", "\n", "f", "(", "\n", " ", " ", "x", "=", "\n",
                ")", "\n">>

\* The depth a line is laid out at: the markers left on the stack after the
\* pops of its closing bracket or the push of its '.'.
DepthOf(stack, line) ==
  IF line[1] \in ClosingBrackets
    THEN Greatest(Holding(stack, OpeningOf[line[1]])) - 1
  ELSE IF line[1] = "." /\ (stack = <<>> \/ stack[Len(stack)] # ".")
    THEN Len(stack) + 1
  ELSE Len(stack)

\* A step of the loop that emits a non-empty line.
EmitsLine == LaysOutLine /\ pc' # "threw"

FooBar == <<HeaderLine, <<"f", "(">>, <<"b", ",">>, <<")">>>>

FooBarLaidOut ==
  <<"/", "/", "\n", "f", "(", "\n", " ", " ", "b", ",", "\n", ")", "\n">>

\* The lines f( b, ) are laid out with b, one unit deeper than f( and ).
FooBarExample ==
  code = FooBar /\ lineIndex = Len(code) /\ pc = "join" =>
    result = FooBarLaidOut

TopIs(stack, markers) == stack # <<>> /\ stack[Len(stack)] \in markers

\* The stack a line is laid out on, DepthOf(stack, line) deep.
StackOf(stack, line) ==
  IF line[1] \in ClosingBrackets
    THEN SubSeq(stack, 1, DepthOf(stack, line))
  ELSE IF line[1] = "." /\ ~TopIs(stack, {"."}) THEN stack \o <<".">>
  ELSE stack

EndsWith1(line, chars) == line[Len(line)] \in chars

IsCommentLine(line) == line[1] \in {"/", "*"}

\* C18: a line starting with '.' pushes a '.' marker unless one is on top;
\* a line that is no comment and ends with ':' or '=' pushes a ':' marker
\* unless one is on top; a line that is no comment and ends with ';' or ','
\* pops the top marker if and only if it is a '.' or a ':' marker, pops no
\* more than that one, and never removes a bracket marker; the last
\* character of a comment line does nothing.
C18_Continuations ==
  [][EmitsLine =>
       LET line == LineOf(lineIndex')
           laidOutOn == StackOf(contextStack, line)
       IN /\ line[1] = "." =>
               /\ TopIs(laidOutOn, {"."})
               /\ laidOutOn \in {contextStack, contextStack \o <<".">>}
               /\ laidOutOn = contextStack <=> TopIs(contextStack, {"."})
          /\ ~IsCommentLine(line) /\ EndsWith1(line, {":", "="}) =>
               contextStack' = IF TopIs(laidOutOn, {":"}) THEN laidOutOn
                               ELSE laidOutOn \o <<":">>
          /\ ~IsCommentLine(line) /\ EndsWith1(line, {";", ","}) =>
               contextStack' = IF TopIs(laidOutOn, {".", ":"})
                                 THEN SubSeq(laidOutOn, 1, Len(laidOutOn) - 1)
                                 ELSE laidOutOn
          /\ IsCommentLine(line) \/ ~EndsWith1(line, {"{", "(", "[", "<",
                                                      ":", "=", ";", ","}) =>
               contextStack' = laidOutOn]_vars

\* A ',' has taken the '.' marker off the bracket marker under it, and the
\* next ',' has left the bracket marker where it was.
C18_Witness ==
  /\ pc = "join"
  /\ lineIndex = 5
  /\ code[2] = <<"f", "(">>
  /\ code[3] = <<".", "c">>
  /\ code[4] = <<"b", ",">>
  /\ code[5] = <<"b", ",">>
  /\ contextStack = <<"(">>
  /\ result = <<"/", "/", "\n", "f", "(", "\n",
                " ", " ", " ", " ", ".", "c", "\n",
                " ", " ", " ", " ", "b", ",", "\n",
                " ", " ", "b", ",", "\n">>

\* The lines of a text, each without the line break that ends it.
RECURSIVE LinesFrom(_, _, _)
LinesFrom(text, i, line) ==
  IF i > Len(text) THEN (IF line = <<>> THEN <<>> ELSE <<line>>)
  ELSE IF text[i] = "\n" THEN <<line>> \o LinesFrom(text, i + 1, <<>>)
  ELSE LinesFrom(text, i + 1, Append(line, text[i]))

TextLines(text) == LinesFrom(text, 1, <<>>)

IsBlank(line) == \A k \in DOMAIN line : line[k] = " "

EndsWithOpenBrace(line) == line # <<>> /\ line[Len(line)] = "{"

RECURSIVE FirstNonSpace(_)
FirstNonSpace(line) ==
  IF line = <<>> THEN ""
  ELSE IF Head(line) = " " THEN FirstNonSpace(Tail(line))
  ELSE Head(line)

StartsWithCloseBrace(line) == FirstNonSpace(line) = "}"

\* C19: in the text the engine returns, no blank line immediately follows a
\* line ending with '{' and no blank line immediately precedes a line
\* starting with '}', however many blank lines the code has there.
C19_NoBlankLineInsideBraces ==
  pc = "returned" =>
    LET lines == TextLines(result)
    IN \A k \in 1..(Len(lines) - 1) :
         /\ EndsWithOpenBrace(lines[k]) => ~IsBlank(lines[k + 1])
         /\ StartsWithCloseBrace(lines[k + 1]) => ~IsBlank(lines[k])

EmptyPairs == {<<"{", "}">>, <<"(", ")">>, <<"[", "]">>}

\* A pair of brackets of the text with white space and nothing else in it.
HasBlankPair(text) ==
  \E pair \in EmptyPairs : \E i, j \in DOMAIN text :
    /\ i + 1 < j
    /\ text[i] = pair[1]
    /\ text[j] = pair[2]
    /\ \A k \in (i + 1)..(j - 1) : text[k] \in {" ", "\n"}

\* Two blank lines one after the other.
HasTwoBlankLines(text) ==
  LET lines == TextLines(text)
  IN \E k \in 1..(Len(lines) - 1) : IsBlank(lines[k]) /\ IsBlank(lines[k + 1])

XEquals == <<HeaderLine, <<"x", " ", "=", " ", "(">>, <<")">>>>

XEqualsLaidOut == <<"/", "/", "\n", "x", " ", "=", " ", "(", ")", "\n">>

\* C20: in the text the engine returns no round, square or curly bracket is
\* separated from its closing bracket by white space and line breaks only,
\* the lines x = ( and ) give the one line x = (), and no two blank lines
\* follow each other.
C20_EmptyPairsAndBlankLines ==
  pc = "returned" =>
    /\ ~HasBlankPair(result)
    /\ code = XEquals => result = XEqualsLaidOut
    /\ ~HasTwoBlankLines(result)

\* The engine has returned the text of two blank lines followed by the lines
\* x = ( and ).
C20_Witness ==
  /\ pc = "returned"
  /\ code = <<HeaderLine, <<>>, <<>>, <<"x", " ", "=", " ", "(">>, <<")">>>>
  /\ result = <<"/", "/", "\n", "\n", "x", " ", "=", " ", "(", ")", "\n">>

(***************************************************************************)
(* The Namer.                                                              *)
(***************************************************************************)

ReturnedBy(op) == {r.value : r \in {q \in returned : q.op = op}}

\* The names the generator declares in every class, as the claim lists them.
TakesSuffix(name, i) ==
  \/ name \in {KindName, BuilderName}
  \/ EndsWith(name, WrapperName)
  \/ (i = 1 /\ name \in {ConstantsName, MethodsName})

RECURSIVE Suffixed(_, _)
Suffixed(name, earlier) ==
  IF \E k \in DOMAIN earlier : earlier[k] = name
    THEN Suffixed(Append(name, 0), earlier) ELSE name

\* The parts of the chain from ancestor i on, after the parts earlier.
RECURSIVE PartsFrom(_, _, _)
PartsFrom(chain, i, earlier) ==
  IF i > Len(chain) THEN earlier
  ELSE LET name == IF TakesSuffix(chain[i], i) THEN Append(chain[i], 0)
                   ELSE chain[i]
       IN PartsFrom(chain, i + 1, Append(earlier, Suffixed(name, earlier)))

RECURSIVE Dotted(_)
Dotted(parts) ==
  IF parts = <<>> THEN <<>> ELSE <<46>> \o Head(parts) \o Dotted(Tail(parts))

\* C21: getClassName appends '_' to every ancestor named Kind or Builder,
\* whose name ends in Wrapper or, at position zero, named Constants or
\* Methods, then appends '_' while the name equals an earlier part of the
\* chain; the parts are pairwise distinct, the class name is the last part
\* and the qualified name ends with the parts joined in chain order.
C21_ClassNames ==
  \A r \in ReturnedBy("getClassName") :
    LET parts == PartsFrom(arguments.recordAncestors, 1, <<>>)
    IN /\ NoDuplicates(parts)
       /\ r.name = parts[Len(parts)]
       /\ EndsWith(r.qualifiedName, Dotted(parts))

\* The lowerCamel form of the field names of SkirFieldNames.
Spelled(name) ==
  IF name = <<7, 5, 20, 0, 3, 12, 1, 19, 19>> THEN <<7, 5, 20, 103, 12, 1, 19, 19>>
  ELSE IF name = <<20, 15, 0, 2, 21, 9, 12, 4, 5, 18>> THEN <<20, 15, 102, 21, 9, 12, 4, 5, 18>>
  ELSE name

\* The first segment of the generated package.
FirstOf(packagePrefix) ==
  IF packagePrefix = <<>> THEN Skirout
  ELSE SubSeq(packagePrefix, 1,
              (CHOOSE k \in DOMAIN packagePrefix :
                 /\ packagePrefix[k] = 46
                 /\ \A j \in 1..(k - 1) : packagePrefix[j] # 46) - 1)

ReservedNames(packagePrefix) ==
  JAVA_HARD_KEYWORDS \cup TOP_LEVEL_PACKAGE_NAMES \cup JAVA_OBJECT_SYMBOLS
    \cup GENERATED_STRUCT_SYMBOLS \cup {FirstOf(packagePrefix)}

\* C22: structFieldToJavaName returns the lowerCamel form of the field name,
\* with one '_' appended exactly when that form is a keyword, a top-level
\* package name, the first segment of the generated package, a method of
\* java.lang.Object or builder, partialBuilder or toBuilder; what it
\* returns is never one of those names.
C22_FieldNames ==
  \A r \in ReturnedBy("structFieldToJavaName") :
    LET name == Spelled(arguments.field)
        reserved == ReservedNames(arguments.packagePrefix)
    IN /\ r = IF name \in reserved THEN Append(name, 0) ELSE name
       /\ r \notin reserved

Dots(text) == Cardinality({k \in DOMAIN text : text[k] = 46})

\* C29: the package that the file of a record declares is the package part
\* of the qualified name that getClassName gives the record: the qualified
\* name is the package, a '.', and the parts of the class name.
C29_PackageConsistency ==
  \A package \in ReturnedBy("package") :
    \A r \in ReturnedBy("getClassName") :
      /\ Len(r.qualifiedName) > Len(package) + 1
      /\ SubSeq(r.qualifiedName, 1, Len(package) + 1) = package \o <<46>>
      /\ Dots(SubSeq(r.qualifiedName, Len(package) + 2, Len(r.qualifiedName)))
           = Len(arguments.recordAncestors) - 1

(***************************************************************************)
(* The paths of the files.                                                 *)
(***************************************************************************)

\* The records of the input that have the same parent have different names.
DistinctSchemaNames ==
  \A i \in DOMAIN input :
    \A q, r \in DOMAIN input[i].records :
      LET x == input[i].records[q].recordAncestors
          y == input[i].records[r].recordAncestors
      IN q # r /\ Len(x) = Len(y)
           /\ SubSeq(x, 1, Len(x) - 1) = SubSeq(y, 1, Len(y) - 1)
           => x[Len(x)] # y[Len(y)]

\* C30: when the records of the input have pairwise distinct names within
\* their parent, the files that generateCode returns have pairwise distinct
\* paths.
C30_DistinctPaths ==
  pc = "done" /\ DistinctSchemaNames =>
    NoDuplicates([j \in DOMAIN outputFiles |-> outputFiles[j].path])

(***************************************************************************)
(* The layout engine: statements and nesting.                              *)
(***************************************************************************)

\* C27: after the engine has laid out a line that is no comment and ends
\* with ';', no '.' or ':' marker is on top of the stack: the top is a
\* bracket marker or the stack is empty.
C27_StatementEndsContinuations ==
  [][EmitsLine =>
       LET line == LineOf(lineIndex')
       IN ~IsCommentLine(line) /\ EndsWith1(line, {";"}) =>
            ~TopIs(contextStack', {".", ":"})]_vars

OpeningBrackets == {"{", "(", "[", "<"}

\* The pairs of lines of the code from line i on: a line that ends with an
\* opening bracket and the line that starts with the closing bracket of it,
\* open being the lines whose bracket is not closed yet.  nested tells
\* whether every closing bracket met its opening bracket and none is left
\* open.  The comment lines are passed over if skipComments.
RECURSIVE Nesting(_, _, _, _)
Nesting(i, open, pairs, skipComments) ==
  IF i > Len(code) THEN [nested |-> open = <<>>, pairs |-> pairs]
  ELSE LET line == LineOf(i)
           passed == line = <<>> \/ (skipComments /\ IsCommentLine(line))
           closes == ~passed /\ line[1] \in ClosingBrackets
           opens == ~passed /\ EndsWith1(line, OpeningBrackets)
           matched ==
             /\ open # <<>>
             /\ EndsWith1(LineOf(open[Len(open)]), {OpeningOf[line[1]]})
           left == IF closes THEN SubSeq(open, 1, Len(open) - 1) ELSE open
       IN IF closes /\ ~matched THEN [nested |-> FALSE, pairs |-> pairs]
          ELSE Nesting(i + 1,
                       IF opens THEN Append(left, i) ELSE left,
                       IF closes THEN pairs \cup {<<open[Len(open)], i>>}
                       ELSE pairs,
                       skipComments)

LeadingSpaces(line) ==
  Cardinality({k \in DOMAIN line : \A j \in 1..k : line[j] = " "})

\* The engine has not thrown, and once it has laid out every line the two
\* lines of every pair have the same indent.
SameIndent(pairs) ==
  /\ pc # "threw"
  /\ pc = "join" /\ lineIndex = Len(code) =>
       \A pair \in pairs :
         LeadingSpaces(TextLines(result)[pair[1]])
           = LeadingSpaces(TextLines(result)[pair[2]])

\* C28 as stated: when every opening bracket that ends a line of the code,
\* the comment lines included, is closed by a later line starting with the
\* matching closing bracket, in properly nested order, the engine does not
\* throw and lays out the closing line with the indent of the opening line.
C28_NestedInAnyLine ==
  LET nesting == Nesting(1, <<>>, {}, FALSE)
  IN nesting.nested => SameIndent(nesting.pairs)

\* C28: when every opening bracket that ends a line of the code that is no
\* comment is closed by a later line that starts with the matching closing
\* bracket, in properly nested order, the engine does not throw and lays
\* out the closing line with the indent of the opening line, whatever '.'
\* and ':' markers were pushed in between.
C28_Nested ==
  LET nesting == Nesting(1, <<>>, {}, TRUE)
  IN nesting.nested => SameIndent(nesting.pairs)

\* The engine has laid out a bracket opened under a ':' marker and closed
\* after a '.' marker had been pushed on it.
C28_Witness ==
  /\ pc = "join"
  /\ lineIndex = 5
  /\ code[2] = <<"x", "=">>
  /\ code[3] = <<"f", "(">>
  /\ code[4] = <<".", "c">>
  /\ code[5] = <<")">>
  /\ contextStack = <<":">>
  /\ result = <<"/", "/", "\n", "x", "=", "\n",
                " ", " ", "f", "(", "\n",
                " ", " ", " ", " ", " ", " ", ".", "c", "\n",
                " ", " ", ")", "\n">>

(***************************************************************************)
(* Type translation                                                        *)
(***************************************************************************)

Translating == arguments.op = "translate"

\* What the calls on the type have returned so far.
FrozenTypes ==
  {r.text : r \in {q \in ReturnedBy("getJavaType") : q.flavor = "frozen"}}

Defaults == ReturnedBy("getDefaultExpression")

Coercions == ReturnedBy("toFrozenExpression")

SerializerExprs == ReturnedBy("getSerializerExpression")

Throws(text) == text = Error \/ text = TypeError

\* piece is a part of text.
Contains(text, piece) ==
  \E i \in 1..(Len(text) - Len(piece) + 1) :
    SubSeq(text, i, i + Len(piece) - 1) = piece

\* The boxed Java type of a primitive, the class of a record.
BoxedName(type) ==
  IF type.kind = "record" THEN recordMap[type.key].className
  ELSE CASE type.primitive = "bool" -> "java.lang.Boolean"
         [] type.primitive = "int32" -> "java.lang.Integer"
         [] type.primitive = "int64" -> "java.lang.Long"
         [] type.primitive = "hash64" -> "java.lang.Long"
         [] type.primitive = "float32" -> "java.lang.Float"
         [] type.primitive = "float64" -> "java.lang.Double"
         [] type.primitive = "timestamp" -> "java.time.Instant"
         [] type.primitive = "string" -> "java.lang.String"
         [] type.primitive = "bytes" -> "okio.ByteString"

\* The type of a key: the Kind of an enum, the boxed type otherwise.
KeyTypeName(keyType) ==
  IF keyType.kind = "record" /\ recordMap[keyType.key].recordType = "enum"
    THEN <<Tok(BoxedName(keyType)), Tok(".Kind")>>
    ELSE <<Tok(BoxedName(keyType))>>

\* The schema names of a key path joined by '.'.
RECURSIVE Label(_)
Label(names) ==
  IF Len(names) = 1 THEN names[1]
  ELSE names[1] \o <<46>> \o Label(Tail(names))

\* One call of the accessor of the field per segment of a key path.
RECURSIVE Accessors(_)
Accessors(names) ==
  LET call == structFieldToJavaName(namer, names[1]) \o <<40, 41>>
  IN IF Len(names) = 1 THEN call
     ELSE call \o <<46>> \o Accessors(Tail(names))

FooById == ArrayType(RecordType("Foo"), Key(<<<<9, 4>>>>, Primitive("int32")))

\* C23: for an array type with a key, the frozen type is
\* build.skir.KeyedList<item, key> with the item in boxed form and the key
\* in boxed frozen-key form (the Kind of an enum), and the serializer is
\* keyedListSerializer(item serializer, "label", (it) -> it.accessors) whose
\* label is the schema names of the key path joined by '.' and whose
\* accessors call one accessor per segment; an array of Foo keyed by id
\* gives KeyedList<Foo, java.lang.Integer>, "id" and it.id().
C23_KeyedArray ==
  (Translating /\ arguments.type.kind = "array"
     /\ arguments.type.key # undefined) =>
    LET type == arguments.type
    IN /\ \A text \in FrozenTypes :
            text = <<Tok("build.skir.KeyedList<"),
                     Tok(BoxedName(type.item)), Tok(", ")>>
                   \o KeyTypeName(type.key.keyType) \o <<Tok(">")>>
       /\ \A text \in SerializerExprs :
            text = <<Tok("build.skir.internal.ListSerializerKt.keyedListSerializer(\n")>>
                   \o getSerializerExpression(type.item)
                   \o <<Tok(",\n\""), Name(Label(type.key.path)),
                        Tok("\",\n(it) -> it."),
                        Name(Accessors(type.key.path)), Tok("\n)")>>
       /\ type = FooById =>
            /\ \A text \in FrozenTypes :
                 text = <<Tok("build.skir.KeyedList<"), Tok("skirout.a.Foo"),
                          Tok(", "), Tok("java.lang.Integer"), Tok(">")>>
            /\ \A text \in SerializerExprs :
                 /\ text[4] = Tok(",\n\"")
                 /\ text[5] = Name(<<9, 4>>)
                 /\ text[6] = Tok("\",\n(it) -> it.")
                 /\ text[7] = Name(<<9, 4, 40, 41>>)

\* The frozen type and the serializer of an array of Foo keyed by id have
\* been spelled.
C23_Witness ==
  /\ Translating
  /\ arguments.type = FooById
  /\ FrozenTypes # {}
  /\ SerializerExprs # {}

\* The expression of the child of an array or optional type in the lambda
\* of the coercion, or no lambda when the child needs no coercion.
CoercesChild(text, child) ==
  LET it == <<Tok("_e")>>
  IN \E nullability \in {"can-be-null", "never-null"} :
       LET childExpr == toFrozenExpression(it, child, nullability,
                                           it \o <<Tok("_")>>)
       IN \/ childExpr = it
          \/ Contains(text, it \o <<Tok(") -> ")>> \o childExpr)

\* C24: the four translations stay in lock-step over every resolved type:
\* each of them translates the type; at an array the frozen type is the
\* keyed list, the default the empty keyed list, the coercion the keyed
\* freeze helper and the serializer the keyed-list serializer exactly when
\* the array has a key, and the plain forms otherwise; at an array or an
\* optional the type, the coercion and the serializer hold the translation
\* of the same child.
C24_LockStep ==
  Translating =>
    LET type == arguments.type
        keyed == type.key # undefined
        child == IF type.kind = "array" THEN type.item ELSE type.other
        Kt == "build.skir.internal.FrozenListKt"
    IN /\ \A text \in FrozenTypes \cup Defaults \cup SerializerExprs :
            ~Throws(text)
       /\ \A c \in Coercions : ~Throws(c.text)
       /\ type.kind = "array" =>
            /\ \A text \in FrozenTypes :
                 Head(text) = IF keyed THEN Tok("build.skir.KeyedList<")
                              ELSE Tok("java.util.List<")
            /\ \A text \in Defaults :
                 text = IF keyed THEN <<Tok("build.skir.internal.FrozenListKt.emptyKeyedList()")>>
                        ELSE <<Tok("build.skir.internal.FrozenListKt.emptyFrozenList()")>>
            /\ \A c \in Coercions :
                 SubSeq(c.text, 1, 2)
                   = IF keyed THEN <<Tok(Kt), Tok(".toKeyedList(\n")>>
                     ELSE IF Len(c.text) = 4
                       THEN <<Tok(Kt), Tok(".toFrozenList(")>>
                     ELSE <<Tok(Kt), Tok(".toFrozenList(\n")>>
            /\ \A text \in SerializerExprs :
                 Head(text)
                   = IF keyed
                       THEN Tok("build.skir.internal.ListSerializerKt.keyedListSerializer(\n")
                     ELSE Tok("build.skir.Serializers.list(\n")
       /\ type.kind \in {"array", "optional"} =>
            /\ \A text \in FrozenTypes :
                 Contains(text, getJavaType(child, "frozen", "must-be-object"))
            /\ \A c \in Coercions : CoercesChild(c.text, child)
            /\ \A text \in SerializerExprs :
                 Contains(text, getSerializerExpression(child))

\* C25 as stated: the coercion of an optional type asserts the unwrapped
\* value to be non-null in the lambda it maps the optional with, for every
\* inner type.
C25_OptionalAsserts ==
  (Translating /\ arguments.type.kind = "optional") =>
    \A c \in Coercions :
      /\ SubSeq(c.text, 1, 4)
           = <<Tok("value"), Tok(".map(\n("), Tok("_e"), Tok(") -> ")>>
      /\ Contains(c.text, requireNonNull(<<Tok("_e")>>))

\* C25: the coercion of an optional type maps the contained value through
\* the coercion of the inner type taken as never null, so that the
\* unwrapped value itself gets no non-null assertion; it throws when the
\* coercion of the inner type throws.
C25_OptionalMaps ==
  (Translating /\ arguments.type.kind = "optional") =>
    LET it == <<Tok("_e")>>
        otherExpr == toFrozenExpression(it, arguments.type.other,
                                        "never-null", it \o <<Tok("_")>>)
    IN \A c \in Coercions :
         /\ c.text = IF otherExpr = Error THEN Error
                     ELSE <<Tok("value"), Tok(".map(\n(")>> \o it
                          \o <<Tok(") -> ")>> \o otherExpr \o <<Tok("\n)")>>
         /\ ~Contains(c.text, requireNonNull(it))

\* The coercion of an optional string has been spelled for a setter.
C25_Witness ==
  /\ Translating
  /\ arguments.type = OptionalType(Primitive("string"))
  /\ [nullability |-> "can-be-null",
      text |-> <<Tok("value"), Tok(".map(\n("), Tok("_e"), Tok(") -> "),
                 Tok("_e"), Tok("\n)")>>] \in Coercions

\* The Java type of the position is a reference type.
IsReference(type, mustBeObject) ==
  getJavaType(type, "initializer", mustBeObject)
    \notin {<<Tok("boolean")>>, <<Tok("int")>>, <<Tok("long")>>,
            <<Tok("float")>>, <<Tok("double")>>}

\* C26: the coercion of a primitive type is the input unchanged, except
\* where the value is nullable and boxed, as a string field or an int32
\* element of an array is, and then the input is wrapped in a non-null
\* assertion.
C26_NullableBoxedAsserted ==
  Translating =>
    LET type == arguments.type
        it == <<Tok("_e")>>
    IN /\ type.kind = "primitive" =>
            \A c \in Coercions :
              c.text = IF /\ c.nullability = "can-be-null"
                          /\ IsReference(type, "undefined")
                         THEN requireNonNull(<<Tok("value")>>)
                       ELSE <<Tok("value")>>
       /\ (type.kind = "array" /\ type.item.kind = "primitive") =>
            \A c \in Coercions :
              IsReference(type.item, "must-be-object") =>
                Contains(c.text,
                         it \o <<Tok(") -> ")>> \o requireNonNull(it))

====
